---- MODULE Spec2Model ----
(***************************************************************************)
(* A model of pyvim's document engine: the Buffer (src/pyvim/buffer.py),   *)
(* its UndoManager (src/pyvim/undo.py) and the editor-level operations     *)
(* that change a buffer's lines (src/pyvim/editor.py, src/pyvim/visual.py).*)
(*                                                                         *)
(* Text is modelled as TLA+ strings; rows and columns are 0-based as in    *)
(* the source, so row y of the buffer is lines[y + 1].                     *)
(***************************************************************************)
EXTENDS Integers, Sequences, FiniteSets, TLC

\* ------------------------------------------------------------------ bounds
\* The characters the model types.
Chars == {"a", " "}

\* How many edits one run makes.
MaxEdits == 2

\* UndoManager.max_undo_levels, scaled down from 1000 so that eviction happens.
max_undo_levels == 2

VARIABLES
    lines,            \* Buffer.lines
    cursor_x,         \* Buffer.cursor_x
    cursor_y,         \* Buffer.cursor_y
    modified,         \* Buffer.modified
    undo_stack,       \* UndoManager.undo_stack, oldest first
    redo_stack,       \* UndoManager.redo_stack
    last_save_index,  \* UndoManager.last_save_index
    op,               \* history: the operation called last
    branch,           \* history: the branch of its code that ran
    ret,              \* history: what it returned, as a string
    saved_lines,      \* history: lines at the last successful save
    hist,             \* history: the states an ideal undo history would hold
    hist_pos,         \* history: the place of the live state in hist
    edits_left,       \* how many more edits the run may make
    selection,        \* VisualModeHandler.selection and .mode
    reg_content,      \* the content of ClipboardManager.registers['"']
    reg_line_mode,    \* its is_line_mode
    args,             \* history: the arguments of the operation called last
    marks,            \* Buffer.marks
    jump_list,        \* Buffer.jump_list
    jump_index,       \* Buffer.jump_index
    windows,          \* WindowManager.windows
    active_window_index,  \* WindowManager.active_window_index
    last_search,      \* SearchEngine.last_search, "None" for None
    matches,          \* SearchEngine.matches
    current_match_index,  \* SearchEngine.current_match_index
    case_sensitive,   \* SearchEngine.case_sensitive
    use_regex,        \* SearchEngine.use_regex
    jumped_from,      \* history: the cursor (row, column) before the last jump
    buffers,          \* BufferManager.buffers
    current_index,    \* BufferManager.current_index
    buffers_made,     \* how many Buffer objects have been constructed
    search_buffer,    \* SearchEngine.buffer
    visual_buffer,    \* VisualModeHandler.buffer
    lines_obj,        \* the list object Buffer.lines refers to
    undo_objs,        \* the list object each state of undo_stack holds
    redo_objs         \* the list object each state of redo_stack holds

bufvars == <<lines, cursor_x, cursor_y, modified>>
undovars == <<undo_stack, redo_stack, last_save_index>>
ghostvars == <<op, branch, ret, args, saved_lines, hist, hist_pos, edits_left>>
regvars == <<reg_content, reg_line_mode>>
navvars == <<marks, jump_list, jump_index>>
winvars == <<windows, active_window_index>>
searchvars == <<last_search, matches, current_match_index, case_sensitive, use_regex>>
mgrvars == <<buffers, current_index, buffers_made, search_buffer, visual_buffer>>
objvars == <<lines_obj, undo_objs, redo_objs>>
restvars == <<jumped_from, mgrvars, objvars>>
vars == <<bufvars, undovars, ghostvars, selection, regvars, navvars, winvars, searchvars,
          restvars>>

\* What the operations of the Buffer and its UndoManager leave alone.
others == <<selection, regvars, navvars, winvars, searchvars, restvars>>

\* ------------------------------------------------------- Python primitives
Min(a, b) == IF a < b THEN a ELSE b
Max(a, b) == IF a > b THEN a ELSE b

\* A slice bound as Python normalises it: negative counts from the end, and
\* the result is clamped into 0..n.
PyIdx(i, n) == IF i < 0 THEN Max(0, n + i) ELSE Min(i, n)

\* s[a:b], s[a:] and s[:b] for a string or a list.
Slice(s, a, b) == SubSeq(s, PyIdx(a, Len(s)) + 1, PyIdx(b, Len(s)))
SliceFrom(s, a) == SubSeq(s, PyIdx(a, Len(s)) + 1, Len(s))
SliceTo(s, b) == SubSeq(s, 1, PyIdx(b, Len(s)))

\* list.insert(i, v) for i >= 0, and del list[i] for an index in range.
ListInsert(l, i, v) == SliceTo(l, i) \o <<v>> \o SliceFrom(l, i)
ListDel(l, i) == SliceTo(l, i) \o SliceFrom(l, i + 1)

\* ------------------------------------------------------------ UndoManager
\* UndoState: the timestamp and the description are never read back.
UndoState(ls, x, y) == [lines |-> ls, cursor_x |-> x, cursor_y |-> y]

Live == UndoState(lines, cursor_x, cursor_y)

PushedUnbounded(stack, state) == Append(stack, state)

\* undo_stack.append(state), then pop(0) past max_undo_levels.
Pushed(stack, state) ==
    LET s == Append(stack, state)
    IN  IF Len(s) > max_undo_levels THEN Tail(s) ELSE s

\* save_state, called on the pre-mutation buffer.
save_state_keeps_redo ==
    /\ undo_stack' = Pushed(undo_stack, Live)
    /\ redo_stack' = redo_stack

save_state ==
    /\ undo_stack' = Pushed(undo_stack, Live)
    /\ redo_stack' = <<>>

\* ---------------------------------------------------------------- history
\* An edit drops the states after the live one and appends the new live
\* state; the history keeps as many states as the undo stack can restore.
HistEdit ==
    LET h == Append(SubSeq(hist, 1, hist_pos), Live')
    IN  IF Len(h) > max_undo_levels + 1
        THEN hist' = Tail(h) /\ hist_pos' = Len(h) - 1
        ELSE hist' = h /\ hist_pos' = Len(h)

\* A cursor movement changes the live state in place.
HistMove ==
    /\ hist' = [hist EXCEPT ![hist_pos] = Live']
    /\ hist_pos' = hist_pos

\* One more edit, while the run may make one.
Budget == edits_left > 0 /\ edits_left' = edits_left - 1

DidWith(name, br, r, a) == op' = name /\ branch' = br /\ ret' = r /\ args' = a

Did(name, br, r) == DidWith(name, br, r, <<>>)

\* ----------------------------------------------------------------- Buffer
InBounds(ls, x, y) ==
    /\ Len(ls) > 0
    /\ 0 <= y /\ y < Len(ls)
    /\ 0 <= x /\ x <= Len(ls[y + 1])

\* Rows y - 1 and y (0-based) joined into one: lines[y - 1] += lines[y], then
\* del lines[y].
JoinRowsSwapped(ls, y) == ListDel([ls EXCEPT ![y] = ls[y + 1] \o ls[y]], y)
JoinRows(ls, y) == ListDel([ls EXCEPT ![y] = ls[y] \o ls[y + 1]], y)

\* max(0, min(v, hi)), the clamp of move_cursor and validate_cursor.
ClampLow(v, hi) == Max(0, v)
Clamp(v, hi) == Max(0, Min(v, hi))

insert_char ==
    \E char \in Chars :
        LET line == lines[cursor_y + 1]
            new == [lines EXCEPT ![cursor_y + 1] =
                        SliceTo(line, cursor_x) \o char \o SliceFrom(line, cursor_x)]
        IN  /\ Budget
            /\ save_state
            /\ lines' = new
            /\ cursor_x' = cursor_x + 1
            /\ cursor_y' = cursor_y
            /\ modified' = TRUE
            /\ UNCHANGED <<last_save_index, saved_lines, others>>
            /\ Did("insert_char", "insert", "None")
            /\ HistEdit

delete_char ==
    /\ Budget
    /\ save_state
    /\ IF cursor_x > 0
       THEN LET line == lines[cursor_y + 1]
            IN  /\ lines' = [lines EXCEPT ![cursor_y + 1] =
                                SliceTo(line, cursor_x - 1) \o SliceFrom(line, cursor_x)]
                /\ cursor_x' = cursor_x - 1
                /\ cursor_y' = cursor_y
                /\ modified' = TRUE
                /\ Did("delete_char", "char", "None")
       ELSE IF cursor_y > 0
       THEN \* Join with previous line
            /\ cursor_x' = Len(lines[cursor_y])
            /\ lines' = JoinRows(lines, cursor_y)
            /\ cursor_y' = cursor_y - 1
            /\ modified' = TRUE
            /\ Did("delete_char", "join", "None")
       ELSE /\ UNCHANGED bufvars
            /\ Did("delete_char", "nothing", "None")
    /\ UNCHANGED <<last_save_index, saved_lines, others>>
    /\ HistEdit

delete_char_at_cursor ==
    /\ Budget
    /\ save_state
    /\ LET line == lines[cursor_y + 1]
       IN  IF cursor_x < Len(line)
           THEN /\ lines' = [lines EXCEPT ![cursor_y + 1] =
                                SliceTo(line, cursor_x) \o SliceFrom(line, cursor_x + 1)]
                /\ modified' = TRUE
                /\ Did("delete_char_at_cursor", "char", "None")
           ELSE IF cursor_y < Len(lines) - 1
           THEN \* Join with next line
                /\ lines' = JoinRows(lines, cursor_y + 1)
                /\ modified' = TRUE
                /\ Did("delete_char_at_cursor", "join", "None")
           ELSE /\ UNCHANGED <<lines, modified>>
                /\ Did("delete_char_at_cursor", "nothing", "None")
    /\ UNCHANGED <<cursor_x, cursor_y, last_save_index, saved_lines, others>>
    /\ HistEdit

\* The (dx, dy) the key bindings pass: h, l, k, j and the arrow keys.
Moves == {<<-1, 0>>, <<1, 0>>, <<0, -1>>, <<0, 1>>}

move_cursor ==
    \E d \in Moves :
        LET dx == d[1]
            dy == d[2]
            new_y == Clamp(cursor_y + dy, Len(lines) - 1)
            line_length == Len(lines[new_y + 1])
        IN  /\ cursor_y' = new_y
            /\ cursor_x' = Clamp(cursor_x + dx, line_length)
            /\ UNCHANGED <<lines, modified, undovars, saved_lines, edits_left, others>>
            /\ Did("move_cursor", "move", "None")
            /\ HistMove

\* str.split(sep) for a non-empty separator: the pieces between its
\* occurrences, scanning from the left.
RECURSIVE SplitFrom(_, _, _, _)
SplitFrom(s, sep, start, i) ==
    IF i + Len(sep) - 1 > Len(s)
    THEN <<SubSeq(s, start, Len(s))>>
    ELSE IF SubSeq(s, i, i + Len(sep) - 1) = sep
         THEN <<SubSeq(s, start, i - 1)>>
                  \o SplitFrom(s, sep, i + Len(sep), i + Len(sep))
         ELSE SplitFrom(s, sep, start, i + 1)

Split(s, sep) == SplitFrom(s, sep, 1, 1)

\* sub in s, for a non-empty sub.
Contains(s, sub) ==
    \E i \in 1..Len(s) : i + Len(sub) - 1 <= Len(s) /\ SubSeq(s, i, i + Len(sub) - 1) = sub

insert_line ==
    \E below \in BOOLEAN :
        /\ Budget
        /\ save_state
        /\ IF below
           THEN /\ lines' = ListInsert(lines, cursor_y + 1, "")
                /\ cursor_y' = cursor_y + 1
                /\ Did("insert_line", "below", "None")
           ELSE /\ lines' = ListInsert(lines, cursor_y, "")
                /\ cursor_y' = cursor_y
                /\ Did("insert_line", "above", "None")
        /\ cursor_x' = 0
        /\ modified' = TRUE
        /\ UNCHANGED <<last_save_index, saved_lines, others>>
        /\ HistEdit

delete_line_clear_unmarked ==
    /\ Budget
    /\ save_state
    /\ IF Len(lines) > 1
       THEN LET new == ListDel(lines, cursor_y)
            IN  /\ lines' = new
                /\ cursor_y' = IF cursor_y >= Len(new) THEN Len(new) - 1 ELSE cursor_y
                /\ modified' = TRUE
                /\ Did("delete_line", "delete", "None")
       ELSE /\ lines' = [lines EXCEPT ![1] = ""]
            /\ cursor_y' = cursor_y
            /\ modified' = modified
            /\ Did("delete_line", "clear", "None")
    /\ cursor_x' = 0
    /\ UNCHANGED <<last_save_index, saved_lines, others>>
    /\ HistEdit

delete_line ==
    /\ Budget
    /\ save_state
    /\ IF Len(lines) > 1
       THEN LET new == ListDel(lines, cursor_y)
            IN  /\ lines' = new
                /\ cursor_y' = IF cursor_y >= Len(new) THEN Len(new) - 1 ELSE cursor_y
                /\ Did("delete_line", "delete", "None")
       ELSE /\ lines' = [lines EXCEPT ![1] = ""]
            /\ cursor_y' = cursor_y
            /\ Did("delete_line", "clear", "None")
    /\ cursor_x' = 0
    /\ modified' = TRUE
    /\ UNCHANGED <<last_save_index, saved_lines, others>>
    /\ HistEdit

\* The line ending set_content detects in its argument.
DetectLineEnding(content) ==
    IF Contains(content, "\r\n") THEN "\r\n"
    ELSE IF Contains(content, "\r") THEN "\r"
    ELSE "\n"

\* validate_cursor applied to a cursor (x, y) over ls: the lines, the row and
\* the column it leaves.
ValidLines(ls) == IF ls = <<>> THEN <<"">> ELSE ls
ValidY(ls, y) == Clamp(y, Len(ValidLines(ls)) - 1)
ValidX(ls, x, y) == Clamp(x, Len(ValidLines(ls)[ValidY(ls, y) + 1]))

\* The arguments the model passes to set_content.
Contents == {"", " \r\na"}

set_content ==
    \E content \in Contents :
        LET new == IF content # "" THEN Split(content, DetectLineEnding(content))
                   ELSE <<"">>
        IN  /\ Budget
            /\ save_state
            /\ lines' = ValidLines(new)
            /\ cursor_y' = ValidY(new, 0)
            /\ cursor_x' = ValidX(new, 0, 0)
            /\ modified' = TRUE
            /\ UNCHANGED <<last_save_index, saved_lines, others>>
            /\ Did("set_content", "set", "None")
            /\ HistEdit

\* The texts the model passes to replace_line, for every row there is.
NewLines == {"", "a "}

replace_line ==
    \E line_num \in 0..Len(lines) - 1, new_line \in NewLines :
        IF 0 <= line_num /\ line_num < Len(lines)
        THEN /\ Budget
             /\ save_state
             /\ lines' = [lines EXCEPT ![line_num + 1] = new_line]
             /\ modified' = TRUE
             /\ UNCHANGED <<cursor_x, cursor_y, last_save_index, saved_lines, others>>
             /\ Did("replace_line", "replace", "None")
             /\ HistEdit
        ELSE /\ UNCHANGED <<bufvars, undovars, saved_lines, hist, hist_pos, edits_left, others>>
             /\ Did("replace_line", "out_of_range", "None")

\* The texts the model passes to insert_text_at_cursor.
Texts == {"a", " \na"}

\* lines.insert(cursor_y + i, line) for each (i, line) of enumerate(mid, 1).
RECURSIVE InsertEach(_, _, _, _)
InsertEach(ls, at, mid, i) ==
    IF i > Len(mid) THEN ls
    ELSE InsertEach(ListInsert(ls, at + i, mid[i]), at, mid, i + 1)

\* Buffer.insert_text_at_cursor(text)
InsertText(text) ==
    LET parts == Split(text, "\n")
        current_line == lines[cursor_y + 1]
        before == SliceTo(current_line, cursor_x)
        after == SliceFrom(current_line, cursor_x)
        first == [lines EXCEPT ![cursor_y + 1] = before \o parts[1]]
        middle == InsertEach(first, cursor_y, Slice(parts, 1, Len(parts) - 1), 1)
        last_line_index == cursor_y + Len(parts) - 1
    IN  /\ Budget
        /\ save_state
        /\ IF Len(parts) = 1
           THEN /\ lines' = [lines EXCEPT ![cursor_y + 1] = before \o text \o after]
                /\ cursor_x' = cursor_x + Len(text)
                /\ cursor_y' = cursor_y
                /\ DidWith("insert_text_at_cursor", "single", "None", <<text>>)
           ELSE /\ lines' = ListInsert(middle, last_line_index,
                                       parts[Len(parts)] \o after)
                /\ cursor_y' = last_line_index
                /\ cursor_x' = Len(parts[Len(parts)])
                /\ DidWith("insert_text_at_cursor", "multi", "None", <<text>>)
        /\ modified' = TRUE
        /\ UNCHANGED <<last_save_index, saved_lines, others>>
        /\ HistEdit

insert_text_at_cursor ==
    \E text \in Texts : InsertText(text)

\* del lines[start_y + 1], n times.
RECURSIVE DelTimes(_, _, _)
DelTimes(ls, at, n) == IF n = 0 THEN ls ELSE DelTimes(ListDel(ls, at), at, n - 1)

\* The ranges with in-range rows and columns, the start not after the end.
Ranges ==
    {r \in (0..Len(lines) - 1) \X (0..3) \X (0..Len(lines) - 1) \X (0..3) :
        /\ r[2] <= Len(lines[r[1] + 1])
        /\ r[4] <= Len(lines[r[3] + 1])
        /\ r[1] < r[3] \/ (r[1] = r[3] /\ r[2] <= r[4])}

delete_range_keeps_a_row ==
    \E r \in Ranges :
        LET start_y == r[1]
            start_x == r[2]
            end_y == r[3]
            end_x == r[4]
            line == lines[start_y + 1]
            first_line == SliceTo(lines[start_y + 1], start_x)
            last_line == SliceFrom(lines[end_y + 1], end_x)
            new == IF start_y = end_y
                   THEN [lines EXCEPT ![start_y + 1] =
                            SliceTo(line, start_x) \o SliceFrom(line, end_x)]
                   ELSE DelTimes([lines EXCEPT ![start_y + 1] = first_line \o last_line],
                                 start_y + 1, end_y - start_y - 1)
        IN  /\ Budget
            /\ save_state
            /\ lines' = ValidLines(new)
            /\ cursor_y' = ValidY(new, start_y)
            /\ cursor_x' = ValidX(new, start_x, start_y)
            /\ modified' = TRUE
            /\ UNCHANGED <<last_save_index, saved_lines, others>>
            /\ DidWith("delete_range", IF start_y = end_y THEN "single" ELSE "multi",
                       "None", r)
            /\ HistEdit

delete_range ==
    \E r \in Ranges :
        LET start_y == r[1]
            start_x == r[2]
            end_y == r[3]
            end_x == r[4]
            line == lines[start_y + 1]
            first_line == SliceTo(lines[start_y + 1], start_x)
            last_line == SliceFrom(lines[end_y + 1], end_x)
            new == IF start_y = end_y
                   THEN [lines EXCEPT ![start_y + 1] =
                            SliceTo(line, start_x) \o SliceFrom(line, end_x)]
                   ELSE DelTimes([lines EXCEPT ![start_y + 1] = first_line \o last_line],
                                 start_y + 1, end_y - start_y)
        IN  /\ Budget
            /\ save_state
            /\ lines' = ValidLines(new)
            /\ cursor_y' = ValidY(new, start_y)
            /\ cursor_x' = ValidX(new, start_x, start_y)
            /\ modified' = TRUE
            /\ UNCHANGED <<last_save_index, saved_lines, others>>
            /\ DidWith("delete_range", IF start_y = end_y THEN "single" ELSE "multi",
                       "None", r)
            /\ HistEdit

\* ------------------------------------------------------------ undo, redo
undo_redo_popped ==
    IF undo_stack = <<>>
    THEN /\ UNCHANGED <<bufvars, undovars, saved_lines, hist, hist_pos, edits_left, others>>
         /\ Did("undo", "empty", "False")
    ELSE LET state == undo_stack[Len(undo_stack)]
         IN  /\ redo_stack' = Append(redo_stack, state)
             /\ undo_stack' = SliceTo(undo_stack, Len(undo_stack) - 1)
             /\ lines' = state.lines
             /\ cursor_x' = state.cursor_x
             /\ cursor_y' = state.cursor_y
             /\ UNCHANGED <<modified, last_save_index, saved_lines, hist, edits_left, others>>
             /\ hist_pos' = IF hist_pos > 1 THEN hist_pos - 1 ELSE hist_pos
             /\ Did("undo", "restore", "True")

undo ==
    IF undo_stack = <<>>
    THEN /\ UNCHANGED <<bufvars, undovars, saved_lines, hist, hist_pos, edits_left, others>>
         /\ Did("undo", "empty", "False")
    ELSE LET state == undo_stack[Len(undo_stack)]
         IN  /\ redo_stack' = Append(redo_stack, Live)
             /\ undo_stack' = SliceTo(undo_stack, Len(undo_stack) - 1)
             /\ lines' = state.lines
             /\ cursor_x' = state.cursor_x
             /\ cursor_y' = state.cursor_y
             /\ UNCHANGED <<modified, last_save_index, saved_lines, hist, edits_left, others>>
             /\ hist_pos' = IF hist_pos > 1 THEN hist_pos - 1 ELSE hist_pos
             /\ Did("undo", "restore", "True")

redo ==
    IF redo_stack = <<>>
    THEN /\ UNCHANGED <<bufvars, undovars, saved_lines, hist, hist_pos, edits_left, others>>
         /\ Did("redo", "empty", "False")
    ELSE LET state == redo_stack[Len(redo_stack)]
         IN  /\ undo_stack' = Append(undo_stack, Live)
             /\ redo_stack' = SliceTo(redo_stack, Len(redo_stack) - 1)
             /\ lines' = state.lines
             /\ cursor_x' = state.cursor_x
             /\ cursor_y' = state.cursor_y
             /\ UNCHANGED <<modified, last_save_index, saved_lines, hist, edits_left, others>>
             /\ hist_pos' = IF hist_pos < Len(hist) THEN hist_pos + 1 ELSE hist_pos
             /\ Did("redo", "restore", "True")

\* ----------------------------------------------------- list object identity
\* The same operations with the identity of the list objects: lines_obj is
\* the list Buffer.lines refers to, and undo_objs and redo_objs hold, for each
\* state of the stacks, the list its lines attribute refers to and the state
\* as it was captured. An assignment to an item of a list is seen through
\* every reference to that list.

\* The list objects something refers to.
Referenced ==
    {lines_obj} \cup {undo_objs[i].obj : i \in 1..Len(undo_objs)}
        \cup {redo_objs[i].obj : i \in 1..Len(redo_objs)}

\* copy.deepcopy(obj) of a list of strings: a list object of its own, which
\* nothing in `used` refers to.
deepcopy_same_list(obj, used) == obj

deepcopy(obj, used) ==
    CHOOSE n \in 0..Cardinality(used) : n \notin used /\ \A m \in 0..n - 1 : m \in used

\* A state held on a stack: the list it refers to, and what was captured.
Held(obj, state) == [obj |-> obj, captured |-> state]

\* The states of a stack after self.lines[y] = ... on the list obj: the
\* states that refer to that list show the new lines.
InPlace(stack, objs, obj, new) ==
    [i \in 1..Len(stack) |->
        IF objs[i].obj = obj THEN [stack[i] EXCEPT !.lines = new] ELSE stack[i]]

\* What the operations on list objects leave alone.
nonobj == <<selection, regvars, navvars, winvars, searchvars, jumped_from, mgrvars>>

\* Buffer.insert_char
obj_insert_char ==
    \E char \in Chars :
        LET line == lines[cursor_y + 1]
            new == [lines EXCEPT ![cursor_y + 1] =
                        SliceTo(line, cursor_x) \o char \o SliceFrom(line, cursor_x)]
            copy == deepcopy(lines_obj, Referenced)
            objs == Pushed(undo_objs, Held(copy, Live))
        IN  /\ Budget
            /\ undo_objs' = objs
            /\ undo_stack' = InPlace(Pushed(undo_stack, Live), objs, lines_obj, new)
            /\ redo_objs' = <<>>
            /\ redo_stack' = <<>>
            /\ lines' = new
            /\ lines_obj' = lines_obj
            /\ cursor_x' = cursor_x + 1
            /\ cursor_y' = cursor_y
            /\ modified' = TRUE
            /\ UNCHANGED <<last_save_index, saved_lines, nonobj>>
            /\ Did("insert_char", "insert", "None")
            /\ HistEdit

\* UndoManager.undo
obj_undo ==
    IF undo_stack = <<>>
    THEN /\ UNCHANGED <<bufvars, undovars, saved_lines, hist, hist_pos, edits_left, others>>
         /\ Did("undo", "empty", "False")
    ELSE LET current == deepcopy(lines_obj, Referenced)
             state == undo_stack[Len(undo_stack)]
             held == undo_objs[Len(undo_objs)]
         IN  /\ redo_stack' = Append(redo_stack, Live)
             /\ redo_objs' = Append(redo_objs, Held(current, Live))
             /\ undo_stack' = SliceTo(undo_stack, Len(undo_stack) - 1)
             /\ undo_objs' = SliceTo(undo_objs, Len(undo_objs) - 1)
             /\ lines' = state.lines
             /\ lines_obj' = deepcopy(held.obj, Referenced \cup {current})
             /\ cursor_x' = state.cursor_x
             /\ cursor_y' = state.cursor_y
             /\ UNCHANGED <<modified, last_save_index, saved_lines, hist, edits_left, nonobj>>
             /\ hist_pos' = IF hist_pos > 1 THEN hist_pos - 1 ELSE hist_pos
             /\ Did("undo", "restore", "True")

\* UndoManager.redo
obj_redo ==
    IF redo_stack = <<>>
    THEN /\ UNCHANGED <<bufvars, undovars, saved_lines, hist, hist_pos, edits_left, others>>
         /\ Did("redo", "empty", "False")
    ELSE LET current == deepcopy(lines_obj, Referenced)
             state == redo_stack[Len(redo_stack)]
             held == redo_objs[Len(redo_objs)]
         IN  /\ undo_stack' = Append(undo_stack, Live)
             /\ undo_objs' = Append(undo_objs, Held(current, Live))
             /\ redo_stack' = SliceTo(redo_stack, Len(redo_stack) - 1)
             /\ redo_objs' = SliceTo(redo_objs, Len(redo_objs) - 1)
             /\ lines' = state.lines
             /\ lines_obj' = deepcopy(held.obj, Referenced \cup {current})
             /\ cursor_x' = state.cursor_x
             /\ cursor_y' = state.cursor_y
             /\ UNCHANGED <<modified, last_save_index, saved_lines, hist, edits_left, nonobj>>
             /\ hist_pos' = IF hist_pos < Len(hist) THEN hist_pos + 1 ELSE hist_pos
             /\ Did("redo", "restore", "True")

\* ------------------------------------------------------------ save_file
\* Buffer.save_file on a buffer that has a filename. Either the write
\* succeeds, or open/write raises and nothing after it runs.
save_file ==
    \E written \in BOOLEAN :
        IF written
        THEN /\ modified' = FALSE
             /\ last_save_index' = Len(undo_stack) - 1
             /\ saved_lines' = lines
             /\ UNCHANGED <<lines, cursor_x, cursor_y, undo_stack, redo_stack,
                            hist, hist_pos, edits_left, others>>
             /\ Did("save_file", "written", "True")
        ELSE /\ UNCHANGED <<bufvars, undovars, saved_lines, hist, hist_pos,
                            edits_left, others>>
             /\ Did("save_file", "raise", "Exception")

\* len(n) of an int n raises TypeError.
LenOfInt(n) == "TypeError"

\* UndoManager.is_modified: current_index = len(self.max_undo_levels) - 1
\* raises before anything is compared.
is_modified ==
    /\ UNCHANGED <<bufvars, undovars, saved_lines, hist, hist_pos, edits_left, others>>
    /\ Did("is_modified", "raise", LenOfInt(max_undo_levels))

\* ----------------------------------------------------------------- Editor
\* The whitespace that \s matches.
Whitespace == {" ", "\t", "\n", "\r", "\f"}

\* re.match(r'^(\s*)', s).group(1): the longest prefix of whitespace.
RECURSIVE LeadingSpace(_)
LeadingSpace(s) ==
    IF s # "" /\ SubSeq(s, 1, 1) \in Whitespace
    THEN SubSeq(s, 1, 1) \o LeadingSpace(SubSeq(s, 2, Len(s)))
    ELSE ""

\* Config.auto_indent, as load_config returns it.
auto_indent == TRUE

\* Editor.handle_enter. It calls no save_state.
handle_enter ==
    LET line == lines[cursor_y + 1]
        before == SliceTo(line, cursor_x)
        after == SliceFrom(line, cursor_x)
        split == ListInsert([lines EXCEPT ![cursor_y + 1] = before], cursor_y + 1, after)
        indent == LeadingSpace(before)
    IN  /\ Budget
        /\ cursor_y' = cursor_y + 1
        /\ IF auto_indent
           THEN /\ lines' = [split EXCEPT ![cursor_y + 2] = indent \o split[cursor_y + 2]]
                /\ cursor_x' = Len(indent)
           ELSE /\ lines' = split
                /\ cursor_x' = 0
        /\ modified' = TRUE
        /\ UNCHANGED <<undovars, saved_lines, others>>
        /\ Did("handle_enter", "split", "None")
        /\ HistEdit

\* ------------------------------------------------------ VisualModeHandler
VisualModes == {"CHARACTER", "LINE", "BLOCK"}

\* self.selection = None
NoSelection ==
    [active |-> FALSE, start_y |-> 0, start_x |-> 0, end_y |-> 0, end_x |-> 0,
     mode |-> "None"]

Selection(sy, sx, ey, ex, mode) ==
    [active |-> TRUE, start_y |-> sy, start_x |-> sx, end_y |-> ey, end_x |-> ex,
     mode |-> mode]

\* Selection.normalize
normalize_rows_only(sel) ==
    IF sel.start_y > sel.end_y
    THEN Selection(sel.end_y, sel.end_x, sel.start_y, sel.start_x, sel.mode)
    ELSE sel

normalize(sel) ==
    IF sel.start_y > sel.end_y \/ (sel.start_y = sel.end_y /\ sel.start_x > sel.end_x)
    THEN Selection(sel.end_y, sel.end_x, sel.start_y, sel.start_x, sel.mode)
    ELSE sel

\* Selection.contains
contains(sel, y, x) ==
    LET norm == normalize(sel)
    IN  IF sel.mode = "LINE"
        THEN norm.start_y <= y /\ y <= norm.end_y
        ELSE IF sel.mode = "CHARACTER"
        THEN IF y < norm.start_y \/ y > norm.end_y THEN FALSE
             ELSE IF y = norm.start_y /\ x < norm.start_x THEN FALSE
             ELSE IF y = norm.end_y /\ x > norm.end_x THEN FALSE
             ELSE TRUE
        ELSE IF sel.mode = "BLOCK"
        THEN IF y < norm.start_y \/ y > norm.end_y THEN FALSE
             ELSE LET min_x == Min(norm.start_x, norm.end_x)
                      max_x == Max(norm.start_x, norm.end_x)
                  IN  min_x <= x /\ x <= max_x
        ELSE FALSE

start_selection ==
    \E mode \in VisualModes :
        /\ selection' = Selection(cursor_y, cursor_x, cursor_y, cursor_x, mode)
        /\ UNCHANGED <<bufvars, undovars, saved_lines, hist, hist_pos, edits_left, regvars,
                   navvars, winvars, searchvars, restvars>>
        /\ Did("start_selection", mode, "None")

update_selection ==
    /\ selection' = IF selection.active
                    THEN [selection EXCEPT !.end_y = cursor_y, !.end_x = cursor_x]
                    ELSE selection
    /\ UNCHANGED <<bufvars, undovars, saved_lines, hist, hist_pos, edits_left, regvars,
                   navvars, winvars, searchvars, restvars>>
    /\ Did("update_selection", IF selection.active THEN "update" ELSE "none", "None")

clear_selection ==
    /\ selection' = NoSelection
    /\ UNCHANGED <<bufvars, undovars, saved_lines, hist, hist_pos, edits_left, regvars,
                   navvars, winvars, searchvars, restvars>>
    /\ Did("clear_selection", "clear", "None")

\* sep.join(l)
RECURSIVE JoinWith(_, _)
JoinWith(l, sep) ==
    IF l = <<>> THEN ""
    ELSE IF Len(l) = 1 THEN l[1]
    ELSE l[1] \o sep \o JoinWith(Tail(l), sep)

\* The rows get_selected_text collects before it joins them.
SelectedRows(ls, sel) ==
    LET norm == normalize(sel)
    IN  IF sel.mode = "LINE"
        THEN SubSeq(ls, norm.start_y + 1, Min(norm.end_y + 1, Len(ls)))
        ELSE IF sel.mode = "CHARACTER"
        THEN IF norm.start_y = norm.end_y
             THEN <<Slice(ls[norm.start_y + 1], norm.start_x, norm.end_x + 1)>>
             ELSE <<SliceFrom(ls[norm.start_y + 1], norm.start_x)>>
                      \o SubSeq(ls, norm.start_y + 2, norm.end_y)
                      \o <<SliceTo(ls[norm.end_y + 1], norm.end_x + 1)>>
        ELSE IF sel.mode = "BLOCK"
        THEN LET min_x == Min(norm.start_x, norm.end_x)
                 max_x == Max(norm.start_x, norm.end_x)
                 last == Min(norm.end_y + 1, Len(ls))
             IN  [k \in 1..Max(0, last - norm.start_y) |->
                     LET line == ls[norm.start_y + k]
                     IN  IF min_x < Len(line)
                         THEN Slice(line, min_x, Min(max_x + 1, Len(line)))
                         ELSE ""]
        ELSE <<>>

\* VisualModeHandler.get_selected_text
get_selected_text ==
    IF ~selection.active THEN "" ELSE JoinWith(SelectedRows(lines, selection), "\n")

\* del l[a:b]
DelSlice(l, a, b) ==
    IF PyIdx(a, Len(l)) >= PyIdx(b, Len(l)) THEN l
    ELSE SliceTo(l, a) \o SliceFrom(l, b)

\* lines after delete_selection, by mode.
DeletedLine(ls, norm) ==
    LET rest == DelSlice(ls, norm.start_y, norm.end_y + 1)
    IN  IF rest = <<>> THEN <<"">> ELSE rest

DeletedCharacterExclusive(ls, norm) ==
    IF norm.start_y = norm.end_y
    THEN LET line == ls[norm.start_y + 1]
         IN  [ls EXCEPT ![norm.start_y + 1] =
                 SliceTo(line, norm.start_x) \o SliceFrom(line, norm.end_x)]
    ELSE LET first_line == SliceTo(ls[norm.start_y + 1], norm.start_x)
             last_line == SliceFrom(ls[norm.end_y + 1], norm.end_x)
         IN  DelSlice([ls EXCEPT ![norm.start_y + 1] = first_line \o last_line],
                      norm.start_y + 1, norm.end_y + 1)

DeletedCharacter(ls, norm) ==
    IF norm.start_y = norm.end_y
    THEN LET line == ls[norm.start_y + 1]
         IN  [ls EXCEPT ![norm.start_y + 1] =
                 SliceTo(line, norm.start_x) \o SliceFrom(line, norm.end_x + 1)]
    ELSE LET first_line == SliceTo(ls[norm.start_y + 1], norm.start_x)
             last_line == SliceFrom(ls[norm.end_y + 1], norm.end_x + 1)
         IN  DelSlice([ls EXCEPT ![norm.start_y + 1] = first_line \o last_line],
                      norm.start_y + 1, norm.end_y + 1)

DeletedBlock(ls, norm) ==
    LET min_x == Min(norm.start_x, norm.end_x)
        max_x == Max(norm.start_x, norm.end_x)
    IN  [i \in 1..Len(ls) |->
            IF norm.start_y <= i - 1 /\ i - 1 <= norm.end_y /\ min_x < Len(ls[i])
            THEN SliceTo(ls[i], min_x) \o SliceFrom(ls[i], Min(max_x + 1, Len(ls[i])))
            ELSE ls[i]]

\* VisualModeHandler.delete_selection. It calls no save_state.
delete_selection ==
    IF ~selection.active
    THEN /\ UNCHANGED <<bufvars, undovars, saved_lines, hist, hist_pos, edits_left, others>>
         /\ Did("delete_selection", "none", "None")
    ELSE LET norm == normalize(selection)
         IN  /\ Budget
             /\ IF selection.mode = "LINE"
                THEN /\ lines' = DeletedLine(lines, norm)
                     /\ cursor_y' = Min(norm.start_y, Len(lines') - 1)
                     /\ cursor_x' = 0
                ELSE IF selection.mode = "CHARACTER"
                THEN /\ lines' = DeletedCharacter(lines, norm)
                     /\ cursor_y' = norm.start_y
                     /\ cursor_x' = norm.start_x
                ELSE /\ lines' = DeletedBlock(lines, norm)
                     /\ cursor_y' = norm.start_y
                     /\ cursor_x' = Min(norm.start_x, norm.end_x)
             /\ modified' = TRUE
             /\ selection' = NoSelection
             /\ UNCHANGED <<undovars, saved_lines, regvars, navvars, winvars, searchvars, restvars>>
             /\ Did("delete_selection", selection.mode, "None")
             /\ HistEdit

indent_str == "    "

StartsWith(s, prefix) == Len(s) >= Len(prefix) /\ SubSeq(s, 1, Len(prefix)) = prefix

Unindented(line) ==
    IF StartsWith(line, indent_str) THEN SliceFrom(line, Len(indent_str))
    ELSE IF StartsWith(line, "\t") THEN SliceFrom(line, 1)
    ELSE line

\* VisualModeHandler.indent_selection. It calls no save_state, and it does
\* nothing to the lines of a BLOCK selection.
indent_selection ==
    \E indent \in BOOLEAN :
        IF ~selection.active
        THEN /\ UNCHANGED <<bufvars, undovars, saved_lines, hist, hist_pos, edits_left, others>>
             /\ Did("indent_selection", "none", "None")
        ELSE LET norm == normalize(selection)
             IN  /\ Budget
                 /\ lines' = IF selection.mode \in {"LINE", "CHARACTER"}
                             THEN [i \in 1..Len(lines) |->
                                     IF norm.start_y <= i - 1 /\ i - 1 <= norm.end_y
                                     THEN IF indent THEN indent_str \o lines[i]
                                          ELSE Unindented(lines[i])
                                     ELSE lines[i]]
                             ELSE lines
                 /\ modified' = TRUE
                 /\ UNCHANGED <<cursor_x, cursor_y, undovars, saved_lines, others>>
                 /\ Did("indent_selection", IF indent THEN "indent" ELSE "unindent", "None")
                 /\ HistEdit

\* ------------------------------------------------------- yank and paste
\* ClipboardManager.yank(lines, '"', line_mode): Register.set
yank(content, line_mode) ==
    /\ reg_content' = content
    /\ reg_line_mode' = line_mode

\* Editor.handle_y_command for the keys y (yy), $ (y$) and 0 (y0).
handle_y_command ==
    \E key \in {"y", "$", "0"} :
        LET line == lines[cursor_y + 1]
        IN  /\ IF key = "y" THEN yank(<<line>>, TRUE)
               ELSE IF key = "$" THEN yank(<<SliceFrom(line, cursor_x)>>, FALSE)
               ELSE yank(<<SliceTo(line, cursor_x)>>, FALSE)
            /\ UNCHANGED <<bufvars, undovars, saved_lines, hist, hist_pos, edits_left,
                           selection, navvars, winvars, searchvars, restvars>>
            /\ Did("handle_y_command", key, "None")

\* The lines handed to ClipboardManager.yank: one row, or two.
YankContents == {<<"a">>, <<"a", "a ">>}

\* ClipboardManager.yank(lines, line_mode=line_mode), as
\* Editor.handle_visual_input calls it with the rows of a selection.
ClipboardManager_yank ==
    \E content \in YankContents, line_mode \in BOOLEAN :
        /\ yank(content, line_mode)
        /\ UNCHANGED <<bufvars, undovars, saved_lines, hist, hist_pos, edits_left,
                       selection, navvars, winvars, searchvars, restvars>>
        /\ DidWith("ClipboardManager.yank", IF line_mode THEN "lines" ELSE "text", "None",
                   <<content, line_mode>>)

\* ClipboardManager.put('"') returns a result unless the register is empty.
PutAlways == TRUE
PutHasResult == reg_content # <<>>

\* ''.join(lines)
RECURSIVE JoinAll(_)
JoinAll(l) == IF l = <<>> THEN "" ELSE l[1] \o JoinAll(Tail(l))

\* Buffer.get_text_range on the lines ls.
get_text_range_unbroken(ls, start_y, start_x, end_y, end_x) ==
    IF start_y = end_y
    THEN Slice(ls[start_y + 1], start_x, end_x)
    ELSE JoinAll(<<SliceFrom(ls[start_y + 1], start_x)>>
                     \o SubSeq(ls, start_y + 2, end_y)
                     \o <<SliceTo(ls[end_y + 1], end_x)>>)

get_text_range(ls, start_y, start_x, end_y, end_x) ==
    IF start_y = end_y
    THEN Slice(ls[start_y + 1], start_x, end_x)
    ELSE JoinWith(<<SliceFrom(ls[start_y + 1], start_x)>>
                      \o SubSeq(ls, start_y + 2, end_y)
                      \o <<SliceTo(ls[end_y + 1], end_x)>>, "\n")

\* lines.insert(at + i, line) for each (i, line) of enumerate(content).
RECURSIVE PasteLines(_, _, _, _)
PasteLines(ls, at, content, i) ==
    IF i >= Len(content) THEN ls
    ELSE PasteLines(ListInsert(ls, at + i, content[i + 1]), at, content, i + 1)

\* The row paste_after inserts the first line at: cursor_y + i + 1 for i = 0.
RowAtCursor(y) == y
RowAfterCursor(y) == y + 1

paste_after ==
    IF PutHasResult
    THEN /\ Budget
         /\ save_state
         /\ IF reg_line_mode
            THEN /\ lines' = PasteLines(lines, RowAfterCursor(cursor_y), reg_content, 0)
                 /\ cursor_y' = cursor_y + 1
                 /\ cursor_x' = 0
                 /\ Did("paste_after", "lines", "None")
            ELSE LET current_line == lines[cursor_y + 1]
                     text == JoinAll(reg_content)
                 IN  /\ lines' = [lines EXCEPT ![cursor_y + 1] =
                                     SliceTo(current_line, cursor_x + 1) \o text
                                         \o SliceFrom(current_line, cursor_x + 1)]
                     /\ cursor_x' = cursor_x + Len(text)
                     /\ cursor_y' = cursor_y
                     /\ Did("paste_after", "text", "None")
         /\ modified' = TRUE
         /\ UNCHANGED <<last_save_index, saved_lines, others>>
         /\ HistEdit
    ELSE /\ UNCHANGED <<bufvars, undovars, saved_lines, hist, hist_pos, edits_left, others>>
         /\ Did("paste_after", "nothing", "None")

paste_before ==
    IF PutHasResult
    THEN /\ Budget
         /\ save_state
         /\ IF reg_line_mode
            THEN /\ lines' = PasteLines(lines, cursor_y, reg_content, 0)
                 /\ cursor_x' = 0
                 /\ Did("paste_before", "lines", "None")
            ELSE LET current_line == lines[cursor_y + 1]
                     text == JoinAll(reg_content)
                 IN  /\ lines' = [lines EXCEPT ![cursor_y + 1] =
                                     SliceTo(current_line, cursor_x) \o text
                                         \o SliceFrom(current_line, cursor_x)]
                     /\ cursor_x' = cursor_x
                     /\ Did("paste_before", "text", "None")
         /\ cursor_y' = cursor_y
         /\ modified' = TRUE
         /\ UNCHANGED <<last_save_index, saved_lines, others>>
         /\ HistEdit
    ELSE /\ UNCHANGED <<bufvars, undovars, saved_lines, hist, hist_pos, edits_left, others>>
         /\ Did("paste_before", "nothing", "None")

\* ------------------------------------------------- marks and jump list
\* The length the jump list is limited to, scaled down from 100 so that the
\* oldest entry is evicted.
MaxJumps == 2

\* The mark name the model uses.
MarkNames == {"a"}

\* self.marks = {}
NoMarks == [m \in {} |-> <<>>]

\* jump_list[:jump_index + 1] when jump_index is not at the last entry.
Truncated(jl, ji) == IF ji < Len(jl) - 1 THEN SliceTo(jl, ji + 1) ELSE jl

\* Buffer.add_jump_position: the jump list and index it leaves for pos, and
\* the branches it took.
AddJumpKeepForward(jl, ji, pos) ==
    LET kept == jl
        cut == IF ji < Len(jl) - 1 THEN "truncate" ELSE "tip"
    IN  IF kept = <<>> \/ kept[Len(kept)] # pos
        THEN LET appended == Append(kept, pos)
             IN  IF Len(appended) > MaxJumps
                 THEN [jump_list |-> Tail(appended), jump_index |-> Len(appended) - 2,
                       branch |-> cut \o "/evict"]
                 ELSE [jump_list |-> appended, jump_index |-> Len(appended) - 1,
                       branch |-> cut \o "/append"]
        ELSE [jump_list |-> kept, jump_index |-> ji, branch |-> cut \o "/same"]

AddJumpNoLimit(jl, ji, pos) ==
    LET kept == Truncated(jl, ji)
        cut == IF ji < Len(jl) - 1 THEN "truncate" ELSE "tip"
    IN  IF kept = <<>> \/ kept[Len(kept)] # pos
        THEN LET appended == Append(kept, pos)
             IN  [jump_list |-> appended, jump_index |-> Len(appended) - 1,
                  branch |-> cut \o "/append"]
        ELSE [jump_list |-> kept, jump_index |-> ji, branch |-> cut \o "/same"]

AddJump(jl, ji, pos) ==
    LET kept == Truncated(jl, ji)
        cut == IF ji < Len(jl) - 1 THEN "truncate" ELSE "tip"
    IN  IF kept = <<>> \/ kept[Len(kept)] # pos
        THEN LET appended == Append(kept, pos)
             IN  IF Len(appended) > MaxJumps
                 THEN [jump_list |-> Tail(appended), jump_index |-> Len(appended) - 2,
                       branch |-> cut \o "/evict"]
                 ELSE [jump_list |-> appended, jump_index |-> Len(appended) - 1,
                       branch |-> cut \o "/append"]
        ELSE [jump_list |-> kept, jump_index |-> ji, branch |-> cut \o "/same"]

add_jump_position ==
    LET pos == <<cursor_y, cursor_x>>
        added == AddJump(jump_list, jump_index, pos)
    IN  /\ jump_list' = added.jump_list
        /\ jump_index' = added.jump_index
        /\ UNCHANGED <<bufvars, undovars, saved_lines, hist, hist_pos, edits_left,
                       selection, regvars, marks, winvars, searchvars, restvars>>
        /\ DidWith("add_jump_position", added.branch, "None", pos)

\* Buffer.goto_line, line_num counted from 1.
goto_line ==
    \E line_num \in 0..Len(lines) + 1 :
        LET added == AddJump(jump_list, jump_index, <<cursor_y, cursor_x>>)
        IN  /\ jump_list' = added.jump_list
            /\ jump_index' = added.jump_index
            /\ cursor_y' = Max(0, Min(line_num - 1, Len(lines) - 1))
            /\ cursor_x' = 0
            /\ jumped_from' = <<cursor_y, cursor_x>>
            /\ UNCHANGED <<lines, modified, undovars, saved_lines, edits_left,
                           selection, regvars, marks, winvars, searchvars,
                           mgrvars, objvars>>
            /\ DidWith("goto_line", "goto", "None", <<line_num>>)
            /\ HistMove

set_mark ==
    \E mark \in MarkNames :
        /\ marks' = [m \in DOMAIN marks \cup {mark} |->
                        IF m = mark THEN <<cursor_y, cursor_x>> ELSE marks[m]]
        /\ UNCHANGED <<bufvars, undovars, saved_lines, hist, hist_pos, edits_left,
                       selection, regvars, jump_list, jump_index, winvars, searchvars,
                       restvars>>
        /\ DidWith("set_mark", "set", "None", <<mark>>)

goto_mark_unvalidated ==
    \E mark \in MarkNames :
        IF mark \in DOMAIN marks
        THEN LET added == AddJump(jump_list, jump_index, <<cursor_y, cursor_x>>)
                 y == marks[mark][1]
                 x == marks[mark][2]
             IN  /\ jump_list' = added.jump_list
                 /\ jump_index' = added.jump_index
                 /\ lines' = ValidLines(lines)
                 /\ cursor_y' = y
                 /\ cursor_x' = x
                 /\ jumped_from' = <<cursor_y, cursor_x>>
                 /\ UNCHANGED <<modified, undovars, saved_lines, edits_left,
                                selection, regvars, marks, winvars, searchvars,
                                mgrvars, objvars>>
                 /\ DidWith("goto_mark", "found", "True", <<mark>>)
                 /\ HistMove
        ELSE /\ UNCHANGED <<bufvars, undovars, saved_lines, hist, hist_pos, edits_left,
                            others>>
             /\ DidWith("goto_mark", "unset", "False", <<mark>>)

goto_mark ==
    \E mark \in MarkNames :
        IF mark \in DOMAIN marks
        THEN LET added == AddJump(jump_list, jump_index, <<cursor_y, cursor_x>>)
                 y == marks[mark][1]
                 x == marks[mark][2]
             IN  /\ jump_list' = added.jump_list
                 /\ jump_index' = added.jump_index
                 /\ lines' = ValidLines(lines)
                 /\ cursor_y' = ValidY(lines, y)
                 /\ cursor_x' = ValidX(lines, x, y)
                 /\ jumped_from' = <<cursor_y, cursor_x>>
                 /\ UNCHANGED <<modified, undovars, saved_lines, edits_left,
                                selection, regvars, marks, winvars, searchvars,
                                mgrvars, objvars>>
                 /\ DidWith("goto_mark", "found", "True", <<mark>>)
                 /\ HistMove
        ELSE /\ UNCHANGED <<bufvars, undovars, saved_lines, hist, hist_pos, edits_left,
                            others>>
             /\ DidWith("goto_mark", "unset", "False", <<mark>>)

jump_backward ==
    IF jump_index > 0
    THEN LET pos == jump_list[jump_index]
         IN  /\ jump_index' = jump_index - 1
             /\ lines' = ValidLines(lines)
             /\ cursor_y' = ValidY(lines, pos[1])
             /\ cursor_x' = ValidX(lines, pos[2], pos[1])
             /\ jumped_from' = <<cursor_y, cursor_x>>
             /\ UNCHANGED <<modified, undovars, saved_lines, edits_left,
                            selection, regvars, marks, jump_list, winvars, searchvars,
                            mgrvars, objvars>>
             /\ Did("jump_backward", "jump", "True")
             /\ HistMove
    ELSE /\ UNCHANGED <<bufvars, undovars, saved_lines, hist, hist_pos, edits_left,
                        others>>
         /\ Did("jump_backward", "none", "False")

jump_forward ==
    IF jump_index < Len(jump_list) - 1
    THEN LET pos == jump_list[jump_index + 2]
         IN  /\ jump_index' = jump_index + 1
             /\ lines' = ValidLines(lines)
             /\ cursor_y' = ValidY(lines, pos[1])
             /\ cursor_x' = ValidX(lines, pos[2], pos[1])
             /\ jumped_from' = <<cursor_y, cursor_x>>
             /\ UNCHANGED <<modified, undovars, saved_lines, edits_left,
                            selection, regvars, marks, jump_list, winvars, searchvars,
                            mgrvars, objvars>>
             /\ Did("jump_forward", "jump", "True")
             /\ HistMove
    ELSE /\ UNCHANGED <<bufvars, undovars, saved_lines, hist, hist_pos, edits_left,
                        others>>
         /\ Did("jump_forward", "none", "False")

\* --------------------------------------------------------- WindowManager
\* The size of the screen, Display.width and Display.height.
screen_width == 4
screen_height == 7

\* How many windows the model lets the manager hold.
MaxWindows == 3

SplitTypes == {"HORIZONTAL", "VERTICAL"}

WindowLayout(x, y, width, height) == [x |-> x, y |-> y, width |-> width, height |-> height]

\* Window.__init__; id stands for the identity of the object, buffer for the
\* one Buffer every window of the editor refers to.
Window(id, buffer, layout) ==
    [id |-> id, buffer |-> buffer, layout |-> layout,
     cursor_x |-> 0, cursor_y |-> 0, offset_x |-> 0, offset_y |-> 0]

\* The identity of a newly made window: one no window of ws has.
NewId(ws) ==
    CHOOSE i \in 0..Len(ws) :
        /\ \A k \in 1..Len(ws) : ws[k].id # i
        /\ \A j \in 0..i - 1 : \E k \in 1..Len(ws) : ws[k].id = j

\* What the operations of the WindowManager leave alone.
nonwin == <<bufvars, undovars, saved_lines, hist, hist_pos, edits_left, selection,
            regvars, navvars, searchvars, restvars>>

\* WindowManager.get_active_window is not None.
HasActive(ws, active) == 0 <= active /\ active < Len(ws)

\* The window split_window makes next to current.
SplitNewWithinCurrent(current, split_type) ==
    IF split_type = "HORIZONTAL"
    THEN LET new_height == current.layout.height \div 2
         IN  WindowLayout(current.layout.x, current.layout.y + new_height,
                          current.layout.width, current.layout.height - new_height)
    ELSE LET new_width == current.layout.width \div 2
         IN  WindowLayout(current.layout.x + new_width, current.layout.y,
                          current.layout.width - new_width, current.layout.height)

SplitNew(current, split_type) ==
    IF split_type = "HORIZONTAL"
    THEN LET new_height == current.layout.height \div 2
         IN  WindowLayout(current.layout.x, current.layout.y + new_height,
                          current.layout.width,
                          screen_height - current.layout.y - new_height)
    ELSE LET new_width == current.layout.width \div 2
         IN  WindowLayout(current.layout.x + new_width, current.layout.y,
                          screen_width - current.layout.x - new_width,
                          current.layout.height)

\* current.layout after split_window has shrunk it.
SplitKept(current, split_type) ==
    IF split_type = "HORIZONTAL"
    THEN [current.layout EXCEPT !.height = current.layout.height \div 2]
    ELSE [current.layout EXCEPT !.width = current.layout.width \div 2]

split_window ==
    \E split_type \in SplitTypes :
        /\ Len(windows) < MaxWindows
        /\ IF windows = <<>> \/ ~HasActive(windows, active_window_index)
           THEN /\ UNCHANGED winvars
                /\ DidWith("split_window", "none", "None", <<split_type>>)
           ELSE LET current == windows[active_window_index + 1]
                    new_window == Window(NewId(windows), current.buffer,
                                         SplitNew(current, split_type))
                    shrunk == [windows EXCEPT ![active_window_index + 1].layout =
                                  SplitKept(current, split_type)]
                IN  /\ windows' = ListInsert(shrunk, active_window_index + 1, new_window)
                    /\ UNCHANGED active_window_index
                    /\ DidWith("split_window", "split", "Window", <<split_type>>)
        /\ UNCHANGED nonwin

\* WindowManager._redistribute_space
redistribute_space_no_remainder(ws) ==
    LET height_per_window == screen_height \div Len(ws)
    IN  [i \in 1..Len(ws) |->
            [ws[i] EXCEPT !.layout =
                WindowLayout(0, (i - 1) * height_per_window, screen_width,
                             height_per_window)]]

redistribute_space(ws) ==
    LET height_per_window == screen_height \div Len(ws)
    IN  [i \in 1..Len(ws) |->
            [ws[i] EXCEPT !.layout =
                WindowLayout(0, (i - 1) * height_per_window, screen_width,
                             IF i = Len(ws)
                             THEN height_per_window + (screen_height % Len(ws))
                             ELSE height_per_window)]]

close_window ==
    /\ IF Len(windows) <= 1
       THEN /\ UNCHANGED winvars
            /\ Did("close_window", "last", "False")
       ELSE LET rest == ListDel(windows, active_window_index)
            IN  /\ active_window_index' = IF active_window_index >= Len(rest)
                                          THEN Len(rest) - 1
                                          ELSE active_window_index
                /\ windows' = redistribute_space(rest)
                /\ Did("close_window", "close", "True")
    /\ UNCHANGED nonwin

\* (active + 1) % n and (active - 1) % n, as Python computes them.
NextIndexStuck(active, n) == (active + 1) % (n + 1)
NextIndex(active, n) == (active + 1) % n
PreviousIndex(active, n) == (active - 1) % n

next_window ==
    /\ IF windows # <<>>
       THEN active_window_index' = NextIndex(active_window_index, Len(windows))
       ELSE UNCHANGED active_window_index
    /\ UNCHANGED <<windows, nonwin>>
    /\ Did("next_window", "next", "None")

previous_window ==
    /\ IF windows # <<>>
       THEN active_window_index' = PreviousIndex(active_window_index, Len(windows))
       ELSE UNCHANGED active_window_index
    /\ UNCHANGED <<windows, nonwin>>
    /\ Did("previous_window", "previous", "None")

\* WindowManager.close_window on ws with the active index `active`, more than
\* one window being open: the windows and the active index it leaves.
Closed(ws, active) ==
    LET rest == ListDel(ws, active)
    IN  [windows |-> redistribute_space(rest),
         active |-> IF active >= Len(rest) THEN Len(rest) - 1 ELSE active]

\* The loop of CommandHandler.only_window: step to the next window and close
\* it, until one window is left or the step did not move.
RECURSIVE OnlyLoop(_, _)
OnlyLoop(ws, active) ==
    IF Len(ws) > 1
    THEN LET index == active
             stepped == NextIndex(active, Len(ws))
         IN  IF stepped # index
             THEN LET closed == Closed(ws, stepped)
                  IN  OnlyLoop(closed.windows, closed.active)
             ELSE [windows |-> ws, active |-> active]
    ELSE [windows |-> ws, active |-> active]

\* CommandHandler.only_window (:only)
only_window ==
    LET left == OnlyLoop(windows, active_window_index)
    IN  /\ windows' = left.windows
        /\ active_window_index' = left.active
        /\ UNCHANGED nonwin
        /\ Did("only_window", IF Len(windows) > 1 THEN "close" ELSE "none",
               "Only one window")

\* Window.adjust_viewport along one axis: the offset it leaves for the
\* window's cursor coordinate and the window's extent.
AdjustedOffset(cursor, offset, extent) ==
    IF cursor < offset THEN cursor
    ELSE IF cursor >= offset + extent - 1 THEN cursor - extent + 2
    ELSE offset

\* Window.adjust_viewport, on any of the windows.
adjust_viewport ==
    \E i \in 1..Len(windows) :
        LET w == windows[i]
        IN  /\ windows' = [windows EXCEPT
                  ![i].offset_y = AdjustedOffset(w.cursor_y, w.offset_y, w.layout.height),
                  ![i].offset_x = AdjustedOffset(w.cursor_x, w.offset_x, w.layout.width)]
            /\ UNCHANGED <<active_window_index, nonwin>>
            /\ DidWith("adjust_viewport", "adjust", "None", <<i - 1>>)

\* Window.is_cursor_visible
is_cursor_visible(w) ==
    /\ ~(w.cursor_y < w.offset_y \/ w.cursor_y >= w.offset_y + w.layout.height)
    /\ ~(w.cursor_x < w.offset_x \/ w.cursor_x >= w.offset_x + w.layout.width)

\* The window Editor.run creates.
InitialWindow == Window(0, "buffer", WindowLayout(0, 0, screen_width, screen_height - 2))

\* ----------------------------------------------------------- word motions
\* str.isalnum for one character: the letters of the model, not "_" or " ".
Alnum == {"a", "A", "b"}

\* line[x]
CharAt(line, x) == SubSeq(line, x + 1, x + 1)

\* while x < len(line) and (line[x] in class) == inside: x += 1
RECURSIVE SkipForward(_, _, _, _)
SkipForward(line, x, class, inside) ==
    IF x < Len(line) /\ ((CharAt(line, x) \in class) = inside)
    THEN SkipForward(line, x + 1, class, inside)
    ELSE x

\* while x > 0 and not line[x].isalnum(): x -= 1
RECURSIVE SkipBackOver(_, _)
SkipBackOver(line, x) ==
    IF x > 0 /\ CharAt(line, x) \notin Alnum THEN SkipBackOver(line, x - 1) ELSE x

\* while x > 0 and line[x - 1].isalnum(): x -= 1
RECURSIVE SkipBackTo(_, _)
SkipBackTo(line, x) ==
    IF x > 0 /\ CharAt(line, x - 1) \in Alnum THEN SkipBackTo(line, x - 1) ELSE x

\* Editor.next_word
next_word ==
    LET line == lines[cursor_y + 1]
        x == SkipForward(line, SkipForward(line, cursor_x, Alnum, TRUE), Alnum, FALSE)
    IN  /\ IF x < Len(line)
           THEN /\ cursor_x' = x
                /\ cursor_y' = cursor_y
                /\ Did("next_word", "word", "None")
           ELSE IF cursor_y < Len(lines) - 1
           THEN /\ cursor_y' = cursor_y + 1
                /\ cursor_x' = 0
                /\ Did("next_word", "next line", "None")
           ELSE /\ UNCHANGED <<cursor_x, cursor_y>>
                /\ Did("next_word", "stay", "None")
        /\ UNCHANGED <<lines, modified, undovars, saved_lines, edits_left, others>>
        /\ HistMove

\* ClipboardManager.delete(lines, '"', line_mode): the unnamed register takes
\* the deleted rows; the numbered registers it rotates are not read back.
delete(content, line_mode) ==
    /\ reg_content' = content
    /\ reg_line_mode' = line_mode

\* Editor.handle_d_command for the key w (dw): next_word moves the cursor,
\* then the row the cursor is on then loses line[start_x:end_x].
handle_d_command ==
    LET start_x == cursor_x
        here == lines[cursor_y + 1]
        x == SkipForward(here, SkipForward(here, cursor_x, Alnum, TRUE), Alnum, FALSE)
        moved == IF x < Len(here) THEN <<cursor_y, x>>
                 ELSE IF cursor_y < Len(lines) - 1 THEN <<cursor_y + 1, 0>>
                 ELSE <<cursor_y, cursor_x>>
        end_x == moved[2]
        line == lines[moved[1] + 1]
        deleted == Slice(line, start_x, end_x)
    IN  /\ Budget
        /\ save_state
        /\ lines' = [lines EXCEPT ![moved[1] + 1] =
                        SliceTo(line, start_x) \o SliceFrom(line, end_x)]
        /\ cursor_y' = moved[1]
        /\ cursor_x' = start_x
        /\ modified' = TRUE
        /\ delete(<<deleted>>, FALSE)
        /\ UNCHANGED <<last_save_index, saved_lines, selection, navvars, winvars,
                       searchvars, restvars>>
        /\ Did("handle_d_command",
               IF x < Len(here) THEN "word"
               ELSE IF cursor_y < Len(lines) - 1 THEN "next line" ELSE "stay",
               "None")
        /\ HistEdit

\* Editor.handle_visual_input for the key d, in visual mode: the selected
\* text goes to the register split at its newlines, the selection is deleted
\* and visual mode left.
handle_visual_input ==
    LET text == get_selected_text
        norm == normalize(selection)
    IN  /\ selection.active
        /\ Budget
        /\ delete(Split(text, "\n"), selection.mode = "LINE")
        /\ IF selection.mode = "LINE"
           THEN /\ lines' = DeletedLine(lines, norm)
                /\ cursor_y' = Min(norm.start_y, Len(lines') - 1)
                /\ cursor_x' = 0
           ELSE IF selection.mode = "CHARACTER"
           THEN /\ lines' = DeletedCharacter(lines, norm)
                /\ cursor_y' = norm.start_y
                /\ cursor_x' = norm.start_x
           ELSE /\ lines' = DeletedBlock(lines, norm)
                /\ cursor_y' = norm.start_y
                /\ cursor_x' = Min(norm.start_x, norm.end_x)
        /\ modified' = TRUE
        /\ selection' = NoSelection
        /\ UNCHANGED <<undovars, saved_lines, navvars, winvars, searchvars, restvars>>
        /\ DidWith("handle_visual_input", selection.mode, "None", <<"d">>)
        /\ HistEdit

\* Editor.prev_word, with goto_line_end on the row above.
prev_word ==
    LET line == lines[cursor_y + 1]
    IN  /\ IF cursor_x > 0
           THEN /\ cursor_x' = SkipBackTo(line, SkipBackOver(line, cursor_x - 1))
                /\ cursor_y' = cursor_y
                /\ Did("prev_word", "word", "None")
           ELSE IF cursor_y > 0
           THEN /\ cursor_y' = cursor_y - 1
                /\ cursor_x' = Len(lines[cursor_y])
                /\ Did("prev_word", "previous line", "None")
           ELSE /\ UNCHANGED <<cursor_x, cursor_y>>
                /\ Did("prev_word", "stay", "None")
        /\ UNCHANGED <<lines, modified, undovars, saved_lines, edits_left, others>>
        /\ HistMove

\* ----------------------------------------------------------- SearchEngine
\* The patterns searched for: text, text in the other case, text the buffers
\* do not hold, and an unclosed group, which re.compile rejects.
Patterns == {"a", "A", "a ", "b", "("}

Directions == {"forward", "backward"}

\* Case folding as re.IGNORECASE compares: the letters of the model.
RECURSIVE Lower(_)
Lower(s) ==
    IF s = "" THEN ""
    ELSE (IF SubSeq(s, 1, 1) = "A" THEN "a" ELSE SubSeq(s, 1, 1))
             \o Lower(SubSeq(s, 2, Len(s)))

RECURSIVE Count(_, _)
Count(s, c) ==
    IF s = "" THEN 0
    ELSE (IF SubSeq(s, 1, 1) = c THEN 1 ELSE 0) + Count(SubSeq(s, 2, Len(s)), c)

\* re.compile(pattern) raises re.error: of the patterns here, those with an
\* unbalanced parenthesis. The others hold no metacharacter and mean their
\* own text, compiled as they are or after re.escape.
re_error(pattern) == Count(pattern, "(") # Count(pattern, ")")

\* The compiled text matches at column i of line.
MatchesAt(line, i, pattern, ignorecase) ==
    /\ i + Len(pattern) <= Len(line)
    /\ LET text == SubSeq(line, i + 1, i + Len(pattern))
       IN  IF ignorecase THEN Lower(text) = Lower(pattern) ELSE text = pattern

SearchMatch(line, start, end, text) ==
    [line |-> line, start |-> start, end |-> end, text |-> text]

\* regex.finditer(line) from column i on: leftmost matches that do not overlap.
RECURSIVE finditer(_, _, _, _, _)
finditer(line, line_num, pattern, ignorecase, i) ==
    IF i + Len(pattern) > Len(line) THEN <<>>
    ELSE IF MatchesAt(line, i, pattern, ignorecase)
    THEN <<SearchMatch(line_num, i, i + Len(pattern),
                       SubSeq(line, i + 1, i + Len(pattern)))>>
             \o finditer(line, line_num, pattern, ignorecase, i + Len(pattern))
    ELSE finditer(line, line_num, pattern, ignorecase, i + 1)

\* The matches of rows line_num.. of ls, row after row.
RECURSIVE AllMatches(_, _, _, _)
AllMatches(ls, pattern, ignorecase, line_num) ==
    IF line_num >= Len(ls) THEN <<>>
    ELSE finditer(ls[line_num + 1], line_num, pattern, ignorecase, 0)
             \o AllMatches(ls, pattern, ignorecase, line_num + 1)

\* The index search picks among found, from the cursor.
ActiveFirst(found, direction) == IF direction = "forward" THEN 0 ELSE Len(found) - 1

ActiveFromCursor(found, direction) ==
    LET after == {i \in 0..(Len(found) - 1) :
                     \/ found[i + 1].line > cursor_y
                     \/ found[i + 1].line = cursor_y /\ found[i + 1].start > cursor_x}
        before == {i \in 0..(Len(found) - 1) :
                     \/ found[i + 1].line < cursor_y
                     \/ found[i + 1].line = cursor_y /\ found[i + 1].start < cursor_x}
    IN  IF direction = "forward"
        THEN IF after = {} THEN 0 ELSE CHOOSE i \in after : \A j \in after : i <= j
        ELSE IF before = {} THEN Len(found) - 1
             ELSE CHOOSE i \in before : \A j \in before : i >= j

\* A returned (line, start), as a string.
Position(match) == ToString(<<match.line, match.start>>)

\* SearchEngine.search(pattern, direction): what it leaves in the engine and
\* what it returns. search_history and last_direction are written and never
\* read; whole_word stays False.
Searched(pattern, direction) ==
    LET p == IF pattern = "" THEN last_search ELSE pattern
    IN  IF p = "None"
        THEN [last_search |-> last_search, matches |-> matches,
              current_match_index |-> current_match_index,
              ret |-> "None", branch |-> "no pattern"]
        ELSE IF use_regex /\ re_error(p)
        THEN [last_search |-> p, matches |-> matches,
              current_match_index |-> current_match_index,
              ret |-> "None", branch |-> "re.error"]
        ELSE LET found == AllMatches(lines, p, ~case_sensitive, 0)
             IN  IF found = <<>>
                 THEN [last_search |-> p, matches |-> <<>>,
                       current_match_index |-> current_match_index,
                       ret |-> "None", branch |-> "no match"]
                 ELSE LET i == ActiveFromCursor(found, direction)
                      IN  [last_search |-> p, matches |-> found,
                           current_match_index |-> i,
                           ret |-> Position(found[i + 1]), branch |-> direction]

search ==
    \E pattern \in Patterns \cup {""}, direction \in Directions :
        LET r == Searched(pattern, direction)
        IN  /\ last_search' = r.last_search
            /\ matches' = r.matches
            /\ current_match_index' = r.current_match_index
            /\ UNCHANGED <<bufvars, undovars, saved_lines, hist, hist_pos, edits_left,
                           selection, regvars, navvars, winvars, case_sensitive, use_regex,
                           restvars>>
            /\ DidWith("search", r.branch, r.ret, <<pattern, direction>>)

\* find_next and find_previous: the step of the active index.
StepIndexStuck(index, n, by) == index

StepIndex(index, n, by) == (index + by) % n

\* SearchEngine.find_next and find_previous, by = 1 and by = -1.
Find(name, direction, by) ==
    /\ IF matches = <<>>
       THEN LET r == Searched(last_search, direction)
            IN  /\ last_search' = r.last_search
                /\ matches' = r.matches
                /\ current_match_index' = r.current_match_index
                /\ Did(name, "search", r.ret)
       ELSE LET i == StepIndex(current_match_index, Len(matches), by)
            IN  /\ current_match_index' = i
                /\ UNCHANGED <<last_search, matches>>
                /\ Did(name, "step", Position(matches[i + 1]))
    /\ UNCHANGED <<lines, modified, undovars, saved_lines, edits_left,
                   selection, regvars, marks, winvars, case_sensitive, use_regex,
                   restvars>>

find_next ==
    /\ Find("find_next", "forward", 1)
    /\ UNCHANGED <<cursor_x, cursor_y, jump_list, jump_index, hist, hist_pos>>

find_previous ==
    /\ Find("find_previous", "backward", -1)
    /\ UNCHANGED <<cursor_x, cursor_y, jump_list, jump_index, hist, hist_pos>>

\* Editor.find_next and Editor.find_previous: the engine's step, and on a
\* result add_jump_position and the cursor put on the result.
EditorFind(name, direction, by) ==
    /\ Find(name, direction, by)
    /\ IF ret' # "None"
       THEN LET match == matches'[current_match_index' + 1]
                added == AddJump(jump_list, jump_index, <<cursor_y, cursor_x>>)
            IN  /\ jump_list' = added.jump_list
                /\ jump_index' = added.jump_index
                /\ cursor_y' = match.line
                /\ cursor_x' = match.start
       ELSE UNCHANGED <<cursor_x, cursor_y, jump_list, jump_index>>

Editor_find_next ==
    /\ EditorFind("Editor.find_next", "forward", 1)
    /\ HistMove

Editor_find_previous ==
    /\ EditorFind("Editor.find_previous", "backward", -1)
    /\ HistMove

\* CommandHandler.set_option for ignorecase and noignorecase.
set_option ==
    \E option \in {"ignorecase", "noignorecase"} :
        /\ case_sensitive' = (option = "noignorecase")
        /\ UNCHANGED <<bufvars, undovars, saved_lines, hist, hist_pos, edits_left,
                       selection, regvars, navvars, winvars, last_search, matches,
                       current_match_index, use_regex, restvars>>
        /\ Did("set_option", option, "None")

\* search_engine.use_regex = value, the attribute a caller sets.
set_use_regex ==
    \E value \in BOOLEAN :
        /\ use_regex' = value
        /\ UNCHANGED <<bufvars, undovars, saved_lines, hist, hist_pos, edits_left,
                       selection, regvars, navvars, winvars, last_search, matches,
                       current_match_index, case_sensitive, restvars>>
        /\ Did("set_use_regex", IF value THEN "True" ELSE "False", "None")

\* The replacements and the flags replace is called with.
Replacements == {"", "b"}

Flags == {"", "g", "i"}

\* global_replace = 'g' in flags
global_replace_never(flags) == FALSE
global_replace(flags) == Contains(flags, "g")

\* regex.subn(replacement, line) from column i on, every match or the first
\* one only (regex.sub with count=1): the new text and the number replaced.
RECURSIVE subn(_, _, _, _, _, _)
subn(line, pattern, replacement, ignorecase, every, i) ==
    IF i + Len(pattern) > Len(line)
    THEN [text |-> SubSeq(line, i + 1, Len(line)), n |-> 0]
    ELSE IF MatchesAt(line, i, pattern, ignorecase)
    THEN IF every
         THEN LET rest == subn(line, pattern, replacement, ignorecase, every,
                               i + Len(pattern))
              IN  [text |-> replacement \o rest.text, n |-> rest.n + 1]
         ELSE [text |-> replacement \o SubSeq(line, i + Len(pattern) + 1, Len(line)),
               n |-> 1]
    ELSE LET rest == subn(line, pattern, replacement, ignorecase, every, i + 1)
         IN  [text |-> SubSeq(line, i + 1, i + 1) \o rest.text, n |-> rest.n]

\* count += n over the lines
RECURSIVE SumN(_)
SumN(subs) == IF subs = <<>> THEN 0 ELSE subs[1].n + SumN(Tail(subs))

\* SearchEngine.replace. It calls no save_state; replace_history is written
\* and never read.
replace ==
    \E pattern \in Patterns, replacement \in Replacements, flags \in Flags :
        LET ignorecase == Contains(flags, "i") \/ ~case_sensitive
            subs == [i \in 1..Len(lines) |->
                        subn(lines[i], pattern, replacement, ignorecase,
                             global_replace(flags), 0)]
            count == SumN(subs)
        IN  IF re_error(pattern)
            THEN /\ UNCHANGED <<bufvars, undovars, saved_lines, hist, hist_pos,
                                edits_left, others>>
                 /\ DidWith("replace", "re.error", "0", <<pattern, replacement, flags>>)
            ELSE IF count > 0
            THEN /\ Budget
                 /\ lines' = [i \in 1..Len(lines) |-> subs[i].text]
                 /\ modified' = TRUE
                 /\ UNCHANGED <<cursor_x, cursor_y, undovars, saved_lines, others>>
                 /\ DidWith("replace", "replaced", ToString(count),
                            <<pattern, replacement, flags>>)
                 /\ HistEdit
            ELSE /\ UNCHANGED <<bufvars, undovars, saved_lines, hist, hist_pos,
                                edits_left, others>>
                 /\ DidWith("replace", "none", "0", <<pattern, replacement, flags>>)

\* ---------------------------------------------------------- BufferManager
\* How many Buffer objects a run constructs.
MaxBuffers == 3

\* The file names given to open_file; "None" stands for no file name.
Filenames == {"a.txt", "b.txt"}

\* A Buffer of the manager: id stands for the identity of the object.
Buffer(id, filename) == [id |-> id, filename |-> filename]

\* The identity of the n-th Buffer constructed after the first.
NewBuffer(n) == "buffer" \o ToString(n)

\* What the operations of the BufferManager leave alone.
nonmgr == <<bufvars, undovars, saved_lines, hist, hist_pos, edits_left, selection,
            regvars, navvars, winvars, searchvars, jumped_from, search_buffer,
            visual_buffer, objvars>>

\* BufferManager.get_current_buffer: the identity of the current Buffer,
\* "None" without one.
get_current_buffer(bs, index) ==
    IF 0 <= index /\ index < Len(bs) THEN bs[index + 1].id ELSE "None"

\* The buffers and the current index create_buffer leaves.
Created(filename) ==
    [buffers |-> Append(buffers, Buffer(NewBuffer(buffers_made), filename)),
     current_index |-> Len(buffers)]

create_buffer ==
    \E filename \in Filenames \cup {"None"} :
        /\ buffers_made < MaxBuffers
        /\ buffers' = Created(filename).buffers
        /\ current_index' = Created(filename).current_index
        /\ buffers_made' = buffers_made + 1
        /\ UNCHANGED nonmgr
        /\ DidWith("create_buffer", "create", NewBuffer(buffers_made), <<filename>>)

\* switch_to_buffer(index): the current index it leaves.
Switched(index) ==
    IF 0 <= index /\ index < Len(buffers) THEN index ELSE current_index

switch_to_buffer ==
    \E index \in -1..Len(buffers) :
        /\ current_index' = Switched(index)
        /\ UNCHANGED <<buffers, buffers_made, nonmgr>>
        /\ DidWith("switch_to_buffer",
                   IF 0 <= index /\ index < Len(buffers) THEN "switch" ELSE "none",
                   "None", <<index>>)

\* The indexes of the buffers that have the file name.
OpenAt(filename) == {i \in 0..Len(buffers) - 1 : buffers[i + 1].filename = filename}

\* BufferManager.open_file(filename): the first buffer of that file name
\* becomes current, and without one a buffer is created; what it leaves.
Opening(filename) ==
    IF OpenAt(filename) # {}
    THEN LET i == CHOOSE i \in OpenAt(filename) : \A j \in OpenAt(filename) : i <= j
         IN  [buffers |-> buffers, current_index |-> Switched(i),
              buffers_made |-> buffers_made, branch |-> "switch",
              ret |-> buffers[i + 1].id]
    ELSE [buffers |-> Created(filename).buffers,
          current_index |-> Created(filename).current_index,
          buffers_made |-> buffers_made + 1, branch |-> "create",
          ret |-> NewBuffer(buffers_made)]

open_file ==
    \E filename \in Filenames :
        /\ Opening(filename).buffers_made <= MaxBuffers
        /\ buffers' = Opening(filename).buffers
        /\ current_index' = Opening(filename).current_index
        /\ buffers_made' = Opening(filename).buffers_made
        /\ UNCHANGED nonmgr
        /\ DidWith("open_file", Opening(filename).branch, Opening(filename).ret,
                   <<filename>>)

next_buffer ==
    /\ current_index' = IF buffers # <<>> THEN (current_index + 1) % Len(buffers)
                        ELSE current_index
    /\ UNCHANGED <<buffers, buffers_made, nonmgr>>
    /\ Did("next_buffer", IF buffers # <<>> THEN "next" ELSE "none", "None")

previous_buffer ==
    /\ current_index' = IF buffers # <<>> THEN (current_index - 1) % Len(buffers)
                        ELSE current_index
    /\ UNCHANGED <<buffers, buffers_made, nonmgr>>
    /\ Did("previous_buffer", IF buffers # <<>> THEN "previous" ELSE "none", "None")

\* close_buffer(index): the buffers, the current index and the result it
\* leaves.
Closing(index) ==
    IF ~(0 <= index /\ index < Len(buffers))
    THEN [buffers |-> buffers, current_index |-> current_index, ret |-> "False"]
    ELSE LET rest == ListDel(buffers, index)
         IN  [buffers |-> rest,
              current_index |-> IF rest # <<>>
                                THEN IF current_index >= Len(rest) THEN Len(rest) - 1
                                     ELSE current_index
                                ELSE -1,
              ret |-> "True"]

\* BufferManager.close_buffer, of the current buffer (index None) or of the
\* buffer at an index; args holds the index closed.
close_buffer ==
    \E given \in {"None", "index"} :
        \E index \in IF given = "None" THEN {current_index} ELSE -1..Len(buffers) :
            /\ buffers' = Closing(index).buffers
            /\ current_index' = Closing(index).current_index
            /\ UNCHANGED <<buffers_made, nonmgr>>
            /\ DidWith("close_buffer", given, Closing(index).ret, <<index>>)

\* Editor.buffer.modified: the model edits the first Buffer only, whose flag
\* is `modified`; a Buffer constructed later is as its constructor left it.
CurrentModified ==
    IF get_current_buffer(buffers, current_index) = "buffer" THEN modified ELSE FALSE

\* A command that reads an attribute of Editor.buffer while there is no
\* current buffer.
NoBuffer(name, a) ==
    /\ UNCHANGED <<buffers, current_index, buffers_made, nonmgr>>
    /\ DidWith(name, "raise", "AttributeError", a)

\* CommandHandler.edit_file (:e)
edit_file ==
    \E a \in {<<>>} \cup {<<f>> : f \in Filenames} :
        IF a = <<>>
        THEN /\ UNCHANGED <<buffers, current_index, buffers_made, nonmgr>>
             /\ DidWith("edit_file", "no name", "E32: No file name", a)
        ELSE IF get_current_buffer(buffers, current_index) = "None"
        THEN NoBuffer("edit_file", a)
        ELSE IF CurrentModified
        THEN /\ UNCHANGED <<buffers, current_index, buffers_made, nonmgr>>
             /\ DidWith("edit_file", "modified", "E37: No write since last change", a)
        ELSE /\ Opening(a[1]).buffers_made <= MaxBuffers
             /\ buffers' = Opening(a[1]).buffers
             /\ current_index' = Opening(a[1]).current_index
             /\ buffers_made' = Opening(a[1]).buffers_made
             /\ UNCHANGED nonmgr
             /\ DidWith("edit_file", Opening(a[1]).branch, "file info", a)

\* CommandHandler.next_buffer (:bn)
CommandHandler_next_buffer ==
    /\ current_index' = IF buffers # <<>> THEN (current_index + 1) % Len(buffers)
                        ELSE current_index
    /\ UNCHANGED <<buffers, buffers_made, nonmgr>>
    /\ Did("CommandHandler.next_buffer", IF buffers # <<>> THEN "next" ELSE "none",
           IF buffers # <<>> THEN "Buffer: display_name" ELSE "No buffers")

\* CommandHandler.previous_buffer (:bp)
CommandHandler_previous_buffer ==
    /\ current_index' = IF buffers # <<>> THEN (current_index - 1) % Len(buffers)
                        ELSE current_index
    /\ UNCHANGED <<buffers, buffers_made, nonmgr>>
    /\ Did("CommandHandler.previous_buffer", IF buffers # <<>> THEN "previous" ELSE "none",
           IF buffers # <<>> THEN "Buffer: display_name" ELSE "No buffers")

\* CommandHandler.delete_buffer (:bd)
delete_buffer ==
    IF get_current_buffer(buffers, current_index) = "None"
    THEN NoBuffer("delete_buffer", <<>>)
    ELSE IF CurrentModified
    THEN /\ UNCHANGED <<buffers, current_index, buffers_made, nonmgr>>
         /\ Did("delete_buffer", "modified", "E89: No write since last change for buffer")
    ELSE /\ buffers' = Closing(current_index).buffers
         /\ current_index' = Closing(current_index).current_index
         /\ UNCHANGED <<buffers_made, nonmgr>>
         /\ Did("delete_buffer", "close",
                IF Closing(current_index).ret = "True" THEN "Buffer deleted"
                ELSE "Cannot delete last buffer")

\* ------------------------------------------------------------------- Init
\* Buffer.__init__: one empty line, or the lines load_file read; the cursor
\* at (0, 0), nothing modified, no history, no selection, empty registers.
InitLines == {<<"">>, <<"a ", "", "a">>}

OpenedWith(content) ==
    /\ lines \in content
    /\ modified = FALSE
    /\ undo_stack = <<>>
    /\ redo_stack = <<>>
    /\ last_save_index = -1
    /\ op = "init" /\ branch = "init" /\ ret = "None"
    /\ saved_lines = lines
    /\ hist = <<Live>>
    /\ hist_pos = 1
    /\ selection = NoSelection
    /\ reg_content = <<>>
    /\ reg_line_mode = FALSE
    /\ args = <<>>
    /\ marks = NoMarks
    /\ jump_list = <<>>
    /\ jump_index = -1
    /\ windows = <<InitialWindow>>
    /\ active_window_index = 0
    /\ last_search = "None"
    /\ matches = <<>>
    /\ current_match_index = -1
    /\ case_sensitive = FALSE
    /\ use_regex = FALSE
    /\ jumped_from = <<>>
    /\ buffers = <<Buffer("buffer", "a.txt")>>
    /\ current_index = 0
    /\ buffers_made = 1
    /\ search_buffer = "buffer"
    /\ visual_buffer = "buffer"
    /\ lines_obj = 0
    /\ undo_objs = <<>>
    /\ redo_objs = <<>>

Opened == OpenedWith(InitLines)

Init ==
    /\ cursor_x = 0
    /\ cursor_y = 0
    /\ Opened
    /\ edits_left = MaxEdits

\* The files searched: rows with several matches, in both cases.
SearchLines == {<<"">>, <<"a ", "", "a">>, <<"aAa", "a a">>}

\* The files the word motions run over: words with underscores, runs of
\* separators, an empty row.
WordLines ==
    {<<"a_a a", "", " a">>, <<"a  a_", "a">>, <<"_a", "a a">>, <<"", "a_ a", "">>,
     <<"aa _ a">>, <<" ", "a_a">>, <<"a", "_", "a a">>}

InitWord ==
    /\ cursor_x = 0
    /\ cursor_y = 0
    /\ OpenedWith(WordLines)
    /\ edits_left = MaxEdits

InitSearch ==
    /\ cursor_x = 0
    /\ cursor_y = 0
    /\ OpenedWith(SearchLines)
    /\ edits_left = MaxEdits

\* -------------------------------------------------------- specifications
\* Character edits and cursor movement only.
NextChar ==
    \/ insert_char
    \/ delete_char
    \/ delete_char_at_cursor
    \/ move_cursor

SpecChar == Init /\ [][NextChar]_vars

\* The Buffer's mutating methods with undo and redo.
NextBuffer ==
    \/ insert_char
    \/ delete_char
    \/ delete_char_at_cursor
    \/ insert_line
    \/ delete_line
    \/ replace_line
    \/ insert_text_at_cursor
    \/ delete_range
    \/ set_content
    \/ undo
    \/ redo

SpecBuffer == Init /\ [][NextBuffer]_vars

\* The editor-level operations that change lines, with selection and undo.
\* The cursor is where the edits leave it: in visual mode
\* KeyBindings.handle_key moves nothing, so a selection made through the
\* editor sits on the cursor.
NextEditor ==
    \/ ~selection.active /\ insert_char
    \/ ~selection.active /\ handle_enter
    \/ ~selection.active /\ undo
    \/ ~selection.active /\ start_selection
    \/ update_selection
    \/ clear_selection
    \/ delete_selection
    \/ indent_selection

SpecEditor == Init /\ [][NextEditor]_vars

\* Building a selection: an anchor, cursor movement and update_selection, as
\* Editor.handle_visual_input drives them through the VisualModeHandler.
NextSelect ==
    \/ start_selection
    \/ move_cursor
    \/ update_selection
    \/ clear_selection

SpecSelect == Init /\ [][NextSelect]_vars

\* A selection built that way, then deleted or indented. A run moves the
\* cursor only before its first edit, which bounds the histories explored.
NextVisual ==
    \/ start_selection
    \/ edits_left = MaxEdits /\ move_cursor
    \/ update_selection
    \/ delete_selection
    \/ indent_selection

SpecVisual == Init /\ [][NextVisual]_vars

\* Edits, undo and redo with saving and the modified query.
NextSave ==
    \/ insert_char
    \/ delete_char
    \/ undo
    \/ redo
    \/ save_file
    \/ is_modified

SpecSave == Init /\ [][NextSave]_vars

\* Yank and paste with undo and redo.
NextPaste ==
    \/ insert_char
    \/ handle_y_command
    \/ paste_after
    \/ paste_before
    \/ undo
    \/ redo

SpecPaste == Init /\ [][NextPaste]_vars

\* Pasting a register of one or two rows, at any row. A run moves the cursor
\* only before its first paste, which bounds the histories explored.
NextLinePaste ==
    \/ ClipboardManager_yank
    \/ edits_left = MaxEdits /\ move_cursor
    \/ paste_after
    \/ paste_before

SpecLinePaste == Init /\ [][NextLinePaste]_vars

\* Marks and the jump list, with cursor movement.
NextJump ==
    \/ add_jump_position
    \/ goto_line
    \/ set_mark
    \/ goto_mark
    \/ jump_backward
    \/ jump_forward
    \/ move_cursor

SpecJump == Init /\ [][NextJump]_vars

\* Marks with cursor movement and delete_line, which shortens the buffer and,
\* on its last line, the line.
NextMark ==
    \/ set_mark
    \/ goto_mark
    \/ move_cursor
    \/ delete_line

SpecMark == Init /\ [][NextMark]_vars

\* The windows of the editor.
NextWindow ==
    \/ split_window
    \/ close_window
    \/ next_window
    \/ previous_window
    \/ adjust_viewport

SpecWindow == Init /\ [][NextWindow]_vars

\* The word motions w and b among the cursor keys.
NextWord ==
    \/ next_word
    \/ prev_word
    \/ move_cursor

SpecWord == InitWord /\ [][NextWord]_vars

\* Searching a buffer that is not edited, from wherever the cursor is.
NextSearch ==
    \/ search
    \/ find_next
    \/ find_previous
    \/ move_cursor
    \/ set_option
    \/ set_use_regex

SpecSearch == InitSearch /\ [][NextSearch]_vars

\* Searching a buffer that is edited. An edit is made while the cursor is in
\* the buffer: Editor.find_next can put it outside, where delete_line raises
\* IndexError.
NextSearchEdit ==
    \/ search
    \/ find_next
    \/ find_previous
    \/ Editor_find_next
    \/ Editor_find_previous
    \/ InBounds(lines, cursor_x, cursor_y) /\ delete_line
    \/ InBounds(lines, cursor_x, cursor_y) /\ delete_char_at_cursor

SpecSearchEdit == Init /\ [][NextSearchEdit]_vars

\* Replacing, with either case setting.
NextReplace ==
    \/ replace
    \/ set_option

SpecReplace == InitSearch /\ [][NextReplace]_vars

\* Files with indented rows, for the edits the other components make to the
\* buffer's lines.
OutsideLines == {<<"a ", "", "a">>, <<"    a", "a">>}

InitOutside ==
    /\ cursor_x = 0
    /\ cursor_y = 0
    /\ OpenedWith(OutsideLines)
    /\ edits_left = MaxEdits

\* A selection deleted or indented, or a replacement, each as the first edit
\* of a run, with the cursor and the selection placed beforehand.
Untouched == edits_left = MaxEdits /\ args = <<>>

NextOutside ==
    \/ Untouched /\ start_selection
    \/ Untouched /\ move_cursor
    \/ Untouched /\ update_selection
    \/ Untouched /\ delete_selection
    \/ Untouched /\ indent_selection
    \/ Untouched /\ replace

SpecOutside == InitOutside /\ [][NextOutside]_vars

\* One edit more than the undo stack holds, so that save_state evicts.
InitUndo ==
    /\ cursor_x = 0
    /\ cursor_y = 0
    /\ Opened
    /\ edits_left = max_undo_levels + 1

\* Edits past the capacity of the undo stack, with undo and redo.
NextUndo ==
    \/ insert_char
    \/ delete_char_at_cursor
    \/ undo
    \/ redo

SpecUndo == InitUndo /\ [][NextUndo]_vars

\* Windows split and stepped through, then all but one closed.
NextOnly ==
    \/ split_window
    \/ next_window
    \/ previous_window
    \/ adjust_viewport
    \/ only_window

SpecOnly == Init /\ [][NextOnly]_vars

\* dw at every position of the files of the word motions.
NextDeleteWord ==
    \/ edits_left = MaxEdits /\ move_cursor
    \/ handle_d_command

SpecDeleteWord == InitWord /\ [][NextDeleteWord]_vars

\* The operations of the BufferManager in any order.
NextManager ==
    \/ create_buffer
    \/ open_file
    \/ switch_to_buffer
    \/ next_buffer
    \/ previous_buffer
    \/ close_buffer

SpecManager == Init /\ [][NextManager]_vars

\* The buffer commands, with edits of the first buffer while it is current
\* and the windows split and stepped through.
NextCurrent ==
    \/ edit_file
    \/ CommandHandler_next_buffer
    \/ CommandHandler_previous_buffer
    \/ delete_buffer
    \/ get_current_buffer(buffers, current_index) = "buffer" /\ insert_char
    \/ split_window
    \/ next_window

SpecCurrent == Init /\ [][NextCurrent]_vars

\* A selection deleted with d in visual mode, then pasted back. The cursor
\* moves only before the deletion.
NextVisualPaste ==
    \/ edits_left = MaxEdits /\ start_selection
    \/ edits_left = MaxEdits /\ move_cursor
    \/ edits_left = MaxEdits /\ update_selection
    \/ handle_visual_input
    \/ paste_before

SpecVisualPaste == Init /\ [][NextVisualPaste]_vars

\* Texts of one, two and three rows.
RowTexts == {"a", " \na", "a\n \n"}

\* Text inserted at any position and ranges deleted. The cursor moves only
\* before the first edit.
NextRange ==
    \/ edits_left = MaxEdits /\ move_cursor
    \/ \E text \in RowTexts : InsertText(text)
    \/ delete_range

SpecRange == Init /\ [][NextRange]_vars

\* Edits in place, undo and redo, with the list each state refers to.
NextAlias ==
    \/ obj_insert_char
    \/ obj_undo
    \/ obj_redo

SpecAlias == InitUndo /\ [][NextAlias]_vars

Next ==
    NextChar \/ NextBuffer \/ NextEditor \/ NextSave \/ NextPaste \/ NextJump
        \/ NextMark \/ NextWindow \/ NextSelect \/ NextVisual \/ NextSearch
        \/ NextSearchEdit \/ NextReplace \/ NextLinePaste \/ NextWord
        \/ NextOutside \/ NextUndo \/ NextOnly \/ NextDeleteWord \/ NextManager
        \/ NextCurrent \/ NextVisualPaste \/ NextRange \/ NextAlias

Spec == Init /\ [][Next]_vars

\* C1: after every step of any sequence of insert_char, delete_char,
\* delete_char_at_cursor and move_cursor calls, lines is non-empty and the
\* cursor is inside it: 0 <= cursor_y < len(lines) and
\* 0 <= cursor_x <= len(lines[cursor_y]).
C1_CursorInBounds == InBounds(lines, cursor_x, cursor_y)

\* A backspace has joined two rows and the cursor has then been moved.
C1_Witness ==
    /\ op = "move_cursor"
    /\ Len(lines) = 2
    /\ cursor_y = 1
    /\ cursor_x = Len(lines[2])
    /\ cursor_x > 0
    /\ undo_stack # <<>>

\* C10: delete_char at column 0 of row r > 0 replaces rows r-1 and r by their
\* concatenation and puts the cursor at (r-1, former length of row r-1);
\* delete_char_at_cursor at the end of a row that is not the last replaces
\* that row and the next by their concatenation and does not move the cursor;
\* either way the line count drops by exactly one and every other row is
\* unchanged and keeps its order.
Joined(old, new, r) ==
    /\ Len(new) = Len(old) - 1
    /\ new[r] = old[r] \o old[r + 1]
    /\ \A i \in 1..Len(new) : i < r => new[i] = old[i]
    /\ \A i \in 1..Len(new) : i > r => new[i] = old[i + 1]

C10_JoinAtLineBoundary ==
    [][/\ (op' = "delete_char" /\ cursor_x = 0 /\ cursor_y > 0) =>
            /\ Joined(lines, lines', cursor_y)
            /\ cursor_y' = cursor_y - 1
            /\ cursor_x' = Len(lines[cursor_y])
       /\ (/\ op' = "delete_char_at_cursor"
           /\ cursor_x = Len(lines[cursor_y + 1])
           /\ cursor_y < Len(lines) - 1) =>
            /\ Joined(lines, lines', cursor_y + 1)
            /\ cursor_y' = cursor_y
            /\ cursor_x' = cursor_x]_vars

\* A forward delete at the end of row 0 of a three-row buffer has joined
\* rows 0 and 1 and left the row below.
C10_Witness ==
    /\ op = "delete_char_at_cursor"
    /\ branch = "join"
    /\ lines = <<"a ", "a">>
    /\ cursor_y = 0
    /\ cursor_x = 2

\* The Buffer's mutating methods.
Mutators ==
    {"insert_char", "delete_char", "delete_char_at_cursor", "insert_line",
     "delete_line", "replace_line", "insert_text_at_cursor", "delete_range",
     "set_content"}

\* C2: undo() right after a mutation restores lines and cursor as they were
\* before it, redo() right after that undo restores them as they were after
\* it, and k undo() calls in a row restore the state before the last k
\* mutations, k redo() calls then the state after them: the live state is
\* always the one the ideal history holds at its current place, with as many
\* states left to undo and to redo as that history has before and after it.
C2_UndoRedoRoundTrip ==
    /\ Live = hist[hist_pos]
    /\ Len(undo_stack) = hist_pos - 1
    /\ Len(redo_stack) = Len(hist) - hist_pos

\* Two mutations, two undos and one redo have happened.
C2_Witness ==
    /\ op = "redo"
    /\ ret = "True"
    /\ Len(undo_stack) = 1
    /\ Len(redo_stack) = 1
    /\ hist[1] # hist[2]
    /\ hist[2] # hist[3]

\* C4: after every step of insert_line, delete_line, replace_line,
\* insert_text_at_cursor, delete_range and set_content with in-range
\* arguments, lines is non-empty and the cursor is clamped into the
\* post-mutation bounds.
C4_CursorClamped ==
    op \in {"insert_line", "delete_line", "replace_line", "insert_text_at_cursor",
            "delete_range", "set_content"} /\ branch # "out_of_range"
        => InBounds(lines, cursor_x, cursor_y)

\* C6: after every save_state call the redo stack is empty, so that a redo()
\* that follows a recorded edit returns False and changes neither lines nor
\* cursor.
Recorded(o, b) == o \in Mutators /\ b # "out_of_range"

C6_EditInvalidatesRedo ==
    [][/\ Recorded(op', branch') => redo_stack' = <<>>
       /\ (Recorded(op, branch) /\ op' = "redo") =>
            /\ ret' = "False"
            /\ lines' = lines
            /\ cursor_x' = cursor_x
            /\ cursor_y' = cursor_y]_vars

\* An edit, an undo, another edit and then a redo, which declined.
C6_Witness ==
    /\ op = "redo"
    /\ ret = "False"
    /\ edits_left = MaxEdits - 2
    /\ Len(undo_stack) = 1
    /\ hist_pos = 2 /\ Len(hist) = 2

\* C9 as claimed: every call of a Buffer mutating operation leaves modified
\* == True when it returns, whatever the cursor position and buffer content.
C9_AlwaysModified == Recorded(op, branch) => modified = TRUE

\* C9 as amended: every call of a Buffer mutating operation with in-range
\* arguments leaves modified == True when it returns, except a delete with
\* nothing to delete (delete_char with the cursor at (0, 0),
\* delete_char_at_cursor with the cursor at or past the end of the last row),
\* which leaves modified as it was.
NothingToDelete(o) ==
    \/ o = "delete_char" /\ cursor_x = 0 /\ cursor_y = 0
    \/ /\ o = "delete_char_at_cursor"
       /\ cursor_x >= Len(lines[cursor_y + 1])
       /\ cursor_y >= Len(lines) - 1

C9_ModifiedUnlessNothingToDelete ==
    [][Recorded(op', branch') =>
            IF NothingToDelete(op') THEN modified' = modified ELSE modified' = TRUE]_vars

\* The first edit of an unmodified one-line buffer was delete_line, which
\* cleared the line.
C9_Witness ==
    /\ op = "delete_line"
    /\ branch = "clear"
    /\ modified = TRUE
    /\ undo_stack = <<UndoState(<<"">>, 0, 0)>>

\* ------------------------------------------------------------------- C3
\* C3: every operation that changes lines has first recorded the state it
\* started from with save_state, Editor.handle_enter and the visual-mode
\* delete and indent included: after a step that changed lines (other than
\* undo and redo themselves) the top of the undo stack is the state just
\* before the step, so that one undo brings it back.
C3_SnapshotBeforeChange ==
    [][(lines' # lines /\ op' \notin {"undo", "redo"})
          => (undo_stack' # <<>> /\ undo_stack'[Len(undo_stack')] = Live)]_vars

\* ------------------------------------------------------------------- C5
StateUnchanged == UNCHANGED <<lines, cursor_x, cursor_y, modified, undo_stack, redo_stack>>

\* C5: undo with an empty undo stack and redo with an empty redo stack return
\* False, paste_after and paste_before with an empty register paste nothing,
\* and each leaves lines, cursor, modified flag, undo stack and redo stack as
\* they were.
C5_EmptyDeclines ==
    [][/\ (op' = "undo" /\ undo_stack = <<>>) => (ret' = "False" /\ StateUnchanged)
       /\ (op' = "redo" /\ redo_stack = <<>>) => (ret' = "False" /\ StateUnchanged)
       /\ (op' \in {"paste_after", "paste_before"} /\ reg_content = <<>>)
             => (branch' = "nothing" /\ StateUnchanged)]_vars

\* paste_before has declined on an empty register after an edit and an undo,
\* with both stacks holding history.
C5_Witness ==
    /\ op = "paste_before"
    /\ branch = "nothing"
    /\ reg_content = <<>>
    /\ modified = TRUE
    /\ Len(undo_stack) = 1
    /\ Len(redo_stack) = 1

\* ------------------------------------------------------------------- C7
\* C7: is_modified called right after a successful save, with no edit in
\* between, returns False.
C7_NotModifiedAfterSave ==
    [][(op = "save_file" /\ branch = "written" /\ op' = "is_modified")
          => ret' = "False"]_vars

\* ------------------------------------------------------------------- C8
\* C8: the modified flag is true exactly when lines differ from the lines at
\* the last successful save, or from the opened content if never saved.
C8_ModifiedIffDiffers == modified <=> (lines # saved_lines)

\* ------------------------------------------------------------------ C11
\* C11: a delete with nothing to delete (delete_char at (0, 0),
\* delete_char_at_cursor at the end of the last row) leaves lines, cursor,
\* modified flag, undo stack and redo stack exactly as they were.
C11_NothingToDeleteIsNoOp ==
    [][(op' \in {"delete_char", "delete_char_at_cursor"} /\ NothingToDelete(op'))
          => UNCHANGED <<lines, cursor_x, cursor_y, modified, undo_stack, redo_stack>>]_vars

\* ------------------------------------------------------------------ C12
\* C12: delete_range over several rows (start_y < end_y, in-range
\* coordinates) replaces rows start_y..end_y by the one row
\* lines[start_y][:start_x] + lines[end_y][end_x:], keeps the rows before and
\* after as they were, shortens lines by end_y - start_y rows and puts the
\* cursor at (start_y, start_x).
C12_DeleteRangeSplices ==
    [][(op' = "delete_range" /\ args'[1] < args'[3]) =>
          LET start_y == args'[1]
              start_x == args'[2]
              end_y == args'[3]
              end_x == args'[4]
              prefix == SubSeq(lines[start_y + 1], 1, start_x)
              suffix == SubSeq(lines[end_y + 1], end_x + 1, Len(lines[end_y + 1]))
          IN  /\ lines' = SubSeq(lines, 1, start_y) \o <<prefix \o suffix>>
                              \o SubSeq(lines, end_y + 2, Len(lines))
              /\ Len(lines') = Len(lines) - (end_y - start_y)
              /\ cursor_y' = start_y
              /\ cursor_x' = start_x]_vars

\* delete_range(0, 1, 2, 0) has spliced "a " and "a" across the empty row.
C12_Witness ==
    /\ op = "delete_range"
    /\ args = <<0, 1, 2, 0>>
    /\ lines = <<"aa">>
    /\ cursor_y = 0
    /\ cursor_x = 1
    /\ undo_stack = <<UndoState(<<"a ", "", "a">>, 0, 0)>>

\* ------------------------------------------------------------------ C13
\* C13: the jump list holds at most its limit of entries (100 in the
\* program), and jump_index is -1 exactly when the list is empty and
\* otherwise an index into the list.
C13_JumpListBounded ==
    /\ Len(jump_list) <= MaxJumps
    /\ (jump_index = -1) <=> (jump_list = <<>>)
    /\ jump_list # <<>> => (0 <= jump_index /\ jump_index < Len(jump_list))

\* add_jump_position has evicted the oldest entry of a full jump list.
C13_Witness ==
    /\ op = "add_jump_position"
    /\ branch = "tip/evict"
    /\ Len(jump_list) = MaxJumps
    /\ jump_index = MaxJumps - 1

\* ------------------------------------------------------------------ C14
\* The operations that add the cursor position to the jump list.
AddsJump(o, r) == o \in {"add_jump_position", "goto_line"} \/ (o = "goto_mark" /\ r = "True")

\* C14: adding a position first drops every entry after jump_index; a
\* position equal to the entry then last is not added again; otherwise it is
\* appended, the oldest entry is evicted if the list would exceed its limit,
\* and jump_index points at the new last entry.
C14_BranchAndTruncate ==
    [][AddsJump(op', ret') =>
          LET pos == <<cursor_y, cursor_x>>
              kept == IF jump_index + 1 < Len(jump_list)
                      THEN SubSeq(jump_list, 1, jump_index + 1)
                      ELSE jump_list
          IN  IF kept # <<>> /\ kept[Len(kept)] = pos
              THEN jump_list' = kept
              ELSE /\ jump_list' = IF Len(kept) + 1 > MaxJumps
                                   THEN SubSeq(kept, 2, Len(kept)) \o <<pos>>
                                   ELSE kept \o <<pos>>
                   /\ jump_index' = Len(jump_list') - 1
                   /\ jump_list'[Len(jump_list')] = pos]_vars

\* add_jump_position has dropped the forward entry and appended a new one.
C14_Witness ==
    /\ op = "add_jump_position"
    /\ branch = "truncate/append"
    /\ Len(jump_list) = 2
    /\ jump_index = 1
    /\ jump_list[2] = args

\* ------------------------------------------------------------------ C15
\* C15: goto_mark for a mark that is set returns True and puts the cursor at
\* the stored (row, column) clamped into the current bounds, the row into
\* [0, len(lines) - 1] and the column into [0, len(lines[row])]; goto_mark
\* for a mark that is not set returns False and leaves cursor and jump list
\* as they were.
C15_GotoMarkReclamps ==
    [][op' = "goto_mark" =>
          LET mark == args'[1]
          IN  IF mark \in DOMAIN marks
              THEN LET y == marks[mark][1]
                       x == marks[mark][2]
                       row == IF y > Len(lines) - 1 THEN Len(lines) - 1
                              ELSE IF y < 0 THEN 0 ELSE y
                       col == IF x > Len(lines[row + 1]) THEN Len(lines[row + 1])
                              ELSE IF x < 0 THEN 0 ELSE x
                   IN  /\ ret' = "True"
                       /\ cursor_y' = row
                       /\ cursor_x' = col
              ELSE /\ ret' = "False"
                   /\ UNCHANGED <<cursor_x, cursor_y, jump_list, jump_index>>]_vars

\* goto_mark has gone to a mark set at (2, 1) after delete_line removed row 2:
\* the row is clamped to 1 and the column to the empty row's length.
C15_Witness ==
    /\ op = "goto_mark"
    /\ ret = "True"
    /\ "a" \in DOMAIN marks
    /\ marks["a"] = <<2, 1>>
    /\ lines = <<"a ", "">>
    /\ cursor_y = 1
    /\ cursor_x = 0

\* ------------------------------------------------------------------ C16
\* C16: split_window divides exactly the rectangle (x, y, w, h) of the
\* active window: for HORIZONTAL the original keeps (x, y, w, h // 2) and the
\* new window gets (x, y + h // 2, w, h - h // 2), for VERTICAL the same with
\* widths; the new window has the same buffer, is inserted right after the
\* active window, and the active index does not change.
C16_SplitDividesRectangle ==
    [][(op' = "split_window" /\ branch' = "split") =>
          LET a == active_window_index
              x == windows[a + 1].layout.x
              y == windows[a + 1].layout.y
              w == windows[a + 1].layout.width
              h == windows[a + 1].layout.height
          IN  /\ Len(windows') = Len(windows) + 1
              /\ active_window_index' = a
              /\ windows'[a + 1].id = windows[a + 1].id
              /\ windows'[a + 2].buffer = windows[a + 1].buffer
              /\ \A k \in 1..Len(windows) : windows'[a + 2].id # windows[k].id
              /\ IF args'[1] = "HORIZONTAL"
                 THEN /\ windows'[a + 1].layout = WindowLayout(x, y, w, h \div 2)
                      /\ windows'[a + 2].layout =
                             WindowLayout(x, y + (h \div 2), w, h - (h \div 2))
                 ELSE /\ windows'[a + 1].layout = WindowLayout(x, y, w \div 2, h)
                      /\ windows'[a + 2].layout =
                             WindowLayout(x + (w \div 2), y, w - (w \div 2), h)]_vars

\* ------------------------------------------------------------------ C17
\* The cells of the screen a layout covers.
Cells(l) == (l.x..(l.x + l.width - 1)) \X (l.y..(l.y + l.height - 1))

\* C17: no two windows' rectangles overlap, and together they cover exactly
\* the region of the window the editor started with.
C17_WindowsTile ==
    /\ \A i, j \in 1..Len(windows) :
          i # j => Cells(windows[i].layout) \cap Cells(windows[j].layout) = {}
    /\ UNION {Cells(windows[i].layout) : i \in 1..Len(windows)}
          = Cells(InitialWindow.layout)

\* ------------------------------------------------------------------ C18
\* C18: there is always at least one window and the active index is an index
\* into the window list; close_window on the only window returns False and
\* changes no window and no index; next_window and previous_window move the
\* active index by one modulo the number of windows and undo each other.
C18_WindowIndexValid ==
    [][LET n == Len(windows)
           a == active_window_index
       IN  /\ Len(windows') >= 1
           /\ 0 <= active_window_index' /\ active_window_index' < Len(windows')
           /\ (op' = "close_window" /\ n = 1) => (ret' = "False" /\ UNCHANGED winvars)
           /\ op' = "next_window" =>
                 /\ active_window_index' = IF a = n - 1 THEN 0 ELSE a + 1
                 /\ PreviousIndex(active_window_index', n) = a
                 /\ UNCHANGED windows
           /\ op' = "previous_window" =>
                 /\ active_window_index' = IF a = 0 THEN n - 1 ELSE a - 1
                 /\ NextIndex(active_window_index', n) = a
                 /\ UNCHANGED windows]_vars

\* previous_window has wrapped from the first window to the last of three.
C18_Witness ==
    /\ op = "previous_window"
    /\ Len(windows) = 3
    /\ active_window_index = 2
    /\ windows[1].id = 0
    /\ windows[2].id = 2
    /\ windows[3].id = 1

\* ------------------------------------------------------------------ C19
\* The sum of the heights of ws.
RECURSIVE SumHeights(_)
SumHeights(ws) == IF ws = <<>> THEN 0 ELSE ws[1].layout.height + SumHeights(Tail(ws))

\* C19: a successful close_window removes exactly the active window and keeps
\* the order of the others; of the n windows left, window i gets x = 0, the
\* screen width, y = i * (H // n) and height H // n, the last one H % n rows
\* more, so that the heights sum to the screen height H.
C19_CloseRetiles ==
    [][(op' = "close_window" /\ ret' = "True") =>
          LET a == active_window_index
              n == Len(windows) - 1
              H == screen_height
          IN  /\ Len(windows') = n
              /\ \A i \in 1..n :
                    /\ windows'[i].id = IF i <= a THEN windows[i].id ELSE windows[i + 1].id
                    /\ windows'[i].layout.x = 0
                    /\ windows'[i].layout.width = screen_width
                    /\ windows'[i].layout.y = (i - 1) * (H \div n)
                    /\ windows'[i].layout.height =
                          IF i = n THEN (H \div n) + (H % n) ELSE H \div n
              /\ SumHeights(windows') = H]_vars

\* close_window has closed the first of three windows; the two left share the
\* screen height, the last one with the remainder.
C19_Witness ==
    /\ op = "close_window"
    /\ ret = "True"
    /\ Len(windows) = 2
    /\ windows[1].id # 0 /\ windows[2].id # 0
    /\ windows[1].layout.height = screen_height \div 2
    /\ windows[2].layout.height > windows[1].layout.height

\* ------------------------------------------------------------------ C20
\* C20: after adjust_viewport on a window at least one row high and one
\* column wide the buffer's cursor row is in [offset_y, offset_y + height),
\* its column in [offset_x, offset_x + width), is_cursor_visible() is true,
\* the offsets are not negative, and adjusting again changes nothing.
C20_CursorVisibleAfterAdjust ==
    [][op' = "adjust_viewport" =>
          LET w == windows'[args'[1] + 1]
          IN  (w.layout.height >= 1 /\ w.layout.width >= 1) =>
                 /\ w.offset_y <= cursor_y' /\ cursor_y' < w.offset_y + w.layout.height
                 /\ w.offset_x <= cursor_x' /\ cursor_x' < w.offset_x + w.layout.width
                 /\ is_cursor_visible(w)
                 /\ w.offset_y >= 0 /\ w.offset_x >= 0
                 /\ AdjustedOffset(w.cursor_y, w.offset_y, w.layout.height) = w.offset_y
                 /\ AdjustedOffset(w.cursor_x, w.offset_x, w.layout.width) = w.offset_x]_vars

\* The selection with its anchor and its cursor end exchanged.
Reversed(sel) == Selection(sel.end_y, sel.end_x, sel.start_y, sel.start_x, sel.mode)

\* Document order of two positions.
NotAfter(y1, x1, y2, x2) == y1 < y2 \/ (y1 = y2 /\ x1 <= x2)

\* The positions contains is asked about: every cursor position and a margin
\* of one row and one column around them.
RowsAsked == -1..Len(lines)
ColsAsked == -1..3

\* C21: in every mode and for every pair of endpoints a selection was built
\* from, contains gives the same answer for the selection and for the one with
\* its endpoints exchanged, at every position; it is true at the anchor and
\* at the cursor end; normalize returns the same two endpoints in document
\* order, and normalizing again changes nothing.
C21_ContainsSymmetric ==
    selection.active =>
        LET norm == normalize(selection)
        IN  /\ \A y \in RowsAsked, x \in ColsAsked :
                   contains(selection, y, x) = contains(Reversed(selection), y, x)
            /\ contains(selection, selection.start_y, selection.start_x)
            /\ contains(selection, selection.end_y, selection.end_x)
            /\ NotAfter(norm.start_y, norm.start_x, norm.end_y, norm.end_x)
            /\ norm \in {selection, Reversed(selection)}
            /\ normalize(norm) = norm
            /\ normalize(Reversed(selection)) = norm

\* A block selection dragged backwards: the cursor end is on the same row as
\* the anchor and left of it.
C21_Witness ==
    /\ op = "update_selection"
    /\ selection.active
    /\ selection.mode = "BLOCK"
    /\ selection.start_y = selection.end_y
    /\ selection.start_x > selection.end_x

\* The offset of column x of row y in the rows joined by newlines.
RECURSIVE Offset(_, _, _)
Offset(ls, y, x) == IF y = 0 THEN x ELSE Len(ls[1]) + 1 + Offset(Tail(ls), y - 1, x)

\* C22: delete_selection on a selection whose endpoints are cursor positions
\* removes the text get_selected_text returns. CHARACTER: the rows before the
\* start row and after the end row stay, the start row becomes its prefix
\* before the start column plus the end row's suffix after the end column,
\* and putting the text back at the start gives the old lines. LINE: the text
\* is the rows in range and they are what is gone. BLOCK: each row in range
\* loses columns min_x..max_x, which is its piece of the text; a row too
\* short for the block gives the empty piece and stays as it is.
C22_DeleteRemovesSelectedText ==
    [][ ( /\ op' = "delete_selection"
          /\ selection.active
          /\ InBounds(lines, selection.start_x, selection.start_y)
          /\ InBounds(lines, selection.end_x, selection.end_y) )
        => LET norm == normalize(selection)
               text == get_selected_text
               pieces == Split(text, "\n")
               sy == norm.start_y
               ey == norm.end_y
               min_x == Min(norm.start_x, norm.end_x)
               max_x == Max(norm.start_x, norm.end_x)
               before == SubSeq(lines, 1, sy)
               after == SubSeq(lines, ey + 2, Len(lines))
           IN  /\ selection.mode = "CHARACTER" =>
                   /\ lines' = before
                          \o <<SliceTo(lines[sy + 1], norm.start_x)
                                 \o SliceFrom(lines[ey + 1], norm.end_x + 1)>>
                          \o after
                   /\ LET joined == JoinWith(lines', "\n")
                          at == Offset(lines', sy, norm.start_x)
                      IN  JoinWith(lines, "\n")
                              = SliceTo(joined, at) \o text \o SliceFrom(joined, at)
               /\ selection.mode = "LINE" =>
                   /\ pieces = SubSeq(lines, sy + 1, ey + 1)
                   /\ lines' = IF before \o after = <<>> THEN <<"">> ELSE before \o after
               /\ selection.mode = "BLOCK" =>
                   /\ Len(lines') = Len(lines)
                   /\ Len(pieces) = ey - sy + 1
                   /\ \A i \in 1..Len(lines) :
                          IF sy <= i - 1 /\ i - 1 <= ey
                          THEN LET piece == pieces[i - sy]
                               IN  /\ piece = Slice(lines[i], min_x, max_x + 1)
                                   /\ lines[i] = SliceTo(lines'[i], min_x) \o piece
                                                     \o SliceFrom(lines'[i], min_x)
                                   /\ Len(lines[i]) <= min_x
                                          => piece = "" /\ lines'[i] = lines[i]
                          ELSE lines'[i] = lines[i]
      ]_vars

\* A block over column 0 of all three rows was deleted: the empty middle row
\* is as it was, the other two lost their first character.
C22_Witness ==
    /\ op = "delete_selection"
    /\ branch = "BLOCK"
    /\ hist_pos > 1
    /\ hist[hist_pos - 1].lines = <<"a ", "", "a">>
    /\ lines = <<" ", "", "">>

\* C23: indent_selection on an active selection, whatever its mode: with
\* indent true every row of the normalized row range gets the four spaces in
\* front; with indent false every row in range loses four leading spaces, or
\* else one leading tab, or else stays; the rows outside the range stay; and
\* an unindent right after an indent of the same selection gives back the
\* lines from before the indent.
C23_IndentEveryMode ==
    [][ (op' = "indent_selection" /\ selection.active)
        => LET norm == normalize(selection)
           IN  /\ Len(lines') = Len(lines)
               /\ \A i \in 1..Len(lines) :
                      IF norm.start_y <= i - 1 /\ i - 1 <= norm.end_y
                      THEN IF branch' = "indent"
                           THEN lines'[i] = "    " \o lines[i]
                           ELSE lines'[i] =
                                    IF StartsWith(lines[i], "    ")
                                    THEN SubSeq(lines[i], 5, Len(lines[i]))
                                    ELSE IF StartsWith(lines[i], "\t")
                                    THEN SubSeq(lines[i], 2, Len(lines[i]))
                                    ELSE lines[i]
                      ELSE lines'[i] = lines[i]
               /\ ( /\ branch' = "unindent"
                    /\ op = "indent_selection" /\ branch = "indent"
                    /\ hist_pos > 1 )
                  => lines' = hist[hist_pos - 1].lines
      ]_vars

\* A match lies strictly after, or strictly before, the cursor.
AfterCursor(m) == m.line > cursor_y \/ (m.line = cursor_y /\ m.start > cursor_x)
BeforeCursor(m) == m.line < cursor_y \/ (m.line = cursor_y /\ m.start < cursor_x)

\* The engine after a search for pattern p that found something: the match
\* set holds occurrences of p only, in (row, start) order and not overlapping,
\* every occurrence in the buffer is one of them or overlaps one, and the
\* active match is the one the direction and the cursor select; r is the
\* position returned.
FreshSearch(p, direction, r) ==
    LET ms == matches'
        n == Len(ms)
        k == current_match_index'
        ic == ~case_sensitive
    IN  /\ n > 0
        /\ \A i \in 1..n :
               /\ 0 <= ms[i].line /\ ms[i].line < Len(lines)
               /\ MatchesAt(lines[ms[i].line + 1], ms[i].start, p, ic)
               /\ ms[i].end = ms[i].start + Len(p)
        /\ \A i \in 1..(n - 1) :
               \/ ms[i].line < ms[i + 1].line
               \/ ms[i].line = ms[i + 1].line /\ ms[i].end <= ms[i + 1].start
        /\ \A y \in 0..(Len(lines) - 1) : \A x \in 0..Len(lines[y + 1]) :
               MatchesAt(lines[y + 1], x, p, ic)
                   => \E i \in 1..n :
                          ms[i].line = y /\ ms[i].start <= x /\ x < ms[i].end
        /\ 0 <= k /\ k < n
        /\ direction = "forward" =>
               IF \E i \in 1..n : AfterCursor(ms[i])
               THEN AfterCursor(ms[k + 1]) /\ \A j \in 1..k : ~AfterCursor(ms[j])
               ELSE k = 0
        /\ direction = "backward" =>
               IF \E i \in 1..n : BeforeCursor(ms[i])
               THEN BeforeCursor(ms[k + 1]) /\ \A j \in (k + 2)..n : ~BeforeCursor(ms[j])
               ELSE k = n - 1
        /\ r = ToString(<<ms[k + 1].line, ms[k + 1].start>>)

\* C24: a search from the cursor that finds the pattern builds the whole
\* match set in (row, start) order and makes active the first match strictly
\* after the cursor, or the first of all if none follows (forward), the last
\* match strictly before the cursor, or the last of all if none precedes
\* (backward); it returns that match's (row, start).
C24_FreshSearchSelects ==
    [][ (op' = "search" /\ ret' # "None")
        => FreshSearch(last_search', args'[2], ret') ]_vars

\* A forward search for "a" with the cursor on the last of five matches: none
\* follows, and the first match of the buffer is active.
C24_Witness ==
    /\ op = "search"
    /\ args = <<"a", "forward">>
    /\ lines = <<"aAa", "a a">>
    /\ cursor_y = 1 /\ cursor_x = 2
    /\ Len(matches) = 5
    /\ current_match_index = 0
    /\ ret = ToString(<<0, 0>>)

\* Some occurrence of pattern p in the buffer.
Occurs(p) ==
    \E y \in 0..(Len(lines) - 1) : \E x \in 0..Len(lines[y + 1]) :
        MatchesAt(lines[y + 1], x, p, ~case_sensitive)

\* find_next or find_previous on an empty match set did what a search for
\* the last pattern in that direction does.
SearchedAgain(direction) ==
    IF last_search = "None" \/ (use_regex /\ re_error(last_search)) \/ ~Occurs(last_search)
    THEN ret' = "None"
    ELSE last_search' = last_search /\ FreshSearch(last_search, direction, ret')

\* C25: after every search, find_next and find_previous a non-empty match
\* set has 0 <= current_match_index < len(matches); on a non-empty match set
\* find_next and find_previous leave the set as it is and move the index by
\* +1 and -1 modulo its length, the last match being followed by the first
\* and each step undoing the other; on an empty set they search the last
\* pattern again, forward and backward.
C25_IndexInRange ==
    [][ LET n == Len(matches)
        IN  /\ matches' # <<>> =>
                0 <= current_match_index' /\ current_match_index' < Len(matches')
            /\ (op' = "find_next" /\ n > 0) =>
                /\ matches' = matches
                /\ current_match_index' = (current_match_index + 1) % n
                /\ current_match_index = n - 1 => current_match_index' = 0
                /\ (current_match_index' - 1) % n = current_match_index
                /\ ret' = ToString(<<matches[current_match_index' + 1].line,
                                     matches[current_match_index' + 1].start>>)
            /\ (op' = "find_previous" /\ n > 0) =>
                /\ matches' = matches
                /\ current_match_index' = (current_match_index - 1) % n
                /\ (current_match_index' + 1) % n = current_match_index
                /\ ret' = ToString(<<matches[current_match_index' + 1].line,
                                     matches[current_match_index' + 1].start>>)
            /\ (op' = "find_next" /\ n = 0) => SearchedAgain("forward")
            /\ (op' = "find_previous" /\ n = 0) => SearchedAgain("backward")
      ]_vars

\* find_next stepped from the last of five matches to the first.
C25_Witness ==
    /\ op = "find_next"
    /\ branch = "step"
    /\ Len(matches) = 5
    /\ current_match_index = 0
    /\ ret = ToString(<<0, 0>>)

\* C26: a search that returns None, for want of a match or for a malformed
\* pattern, leaves the buffer's lines, cursor and modified flag and the
\* engine's match set, active index and last pattern as they were.
C26_FailedSearchChangesNothing ==
    [][ (op' = "search" /\ ret' = "None")
        => UNCHANGED <<lines, cursor_x, cursor_y, modified, matches,
                       current_match_index, last_search>> ]_vars

\* C27: a position find_next or find_previous returns, and the editor
\* commands put the cursor on, is never a leftover of a match set built
\* before an edit: it lies in the buffer and the last pattern matches there.
C27_NoStaleMatch ==
    [][ ( /\ op' \in {"find_next", "find_previous",
                      "Editor.find_next", "Editor.find_previous"}
          /\ ret' # "None" )
        => LET match == matches'[current_match_index' + 1]
           IN  /\ match.line < Len(lines')
               /\ MatchesAt(lines'[match.line + 1], match.start, last_search',
                            ~case_sensitive)
               /\ op' \in {"Editor.find_next", "Editor.find_previous"}
                      => InBounds(lines', cursor_x', cursor_y')
      ]_vars

\* line from column i on with the matches ms, in order, replaced by r.
RECURSIVE Substituted(_, _, _, _)
Substituted(line, ms, r, i) ==
    IF ms = <<>> THEN SubSeq(line, i + 1, Len(line))
    ELSE SubSeq(line, i + 1, ms[1].start) \o r \o Substituted(line, Tail(ms), r, ms[1].end)

\* The occurrences replace is to substitute on row y: all of them with flag
\* g, else the first.
ToReplace(y, pattern, flags) ==
    LET occurrences == finditer(lines[y + 1], y, pattern,
                                Contains(flags, "i") \/ ~case_sensitive, 0)
    IN  IF Contains(flags, "g") \/ occurrences = <<>> THEN occurrences
        ELSE <<occurrences[1]>>

RECURSIVE TotalToReplace(_, _, _)
TotalToReplace(y, pattern, flags) ==
    IF y >= Len(lines) THEN 0
    ELSE Len(ToReplace(y, pattern, flags)) + TotalToReplace(y + 1, pattern, flags)

\* C28: replace(pattern, replacement, flags) substitutes every occurrence on
\* each line with flag g and the first occurrence on each line without it,
\* returns the number of substitutions and sets modified when that number is
\* not zero; with a malformed pattern or no occurrence it returns 0 and
\* leaves lines and modified as they were.
C28_ReplaceCounts ==
    [][ op' = "replace"
        => LET pattern == args'[1]
               replacement == args'[2]
               flags == args'[3]
               total == TotalToReplace(0, pattern, flags)
           IN  IF re_error(pattern) \/ total = 0
               THEN ret' = "0" /\ UNCHANGED <<lines, modified>>
               ELSE /\ ret' = ToString(total)
                    /\ Len(lines') = Len(lines)
                    /\ \A i \in 1..Len(lines) :
                           lines'[i] = Substituted(lines[i],
                                                   ToReplace(i - 1, pattern, flags),
                                                   replacement, 0)
                    /\ modified'
      ]_vars

\* replace("a", "b", "g") on the file with three matches on its first row and
\* two on its second made five substitutions.
C28_Witness ==
    /\ op = "replace"
    /\ args = <<"a", "b", "g">>
    /\ ret = "5"
    /\ hist_pos > 1
    /\ hist[hist_pos - 1].lines = <<"aAa", "a a">>
    /\ lines = <<"bbb", "b b">>
    /\ modified

\* C29: with a line-mode register holding L1..Ln and the cursor on row r,
\* paste_after leaves the rows up to r, then L1..Ln, then the rows after r,
\* with the cursor at (r + 1, 0); paste_before leaves the rows before r, then
\* L1..Ln, then row r and the rows after it, with the cursor at (r, 0).
C29_LinePasteAdjacent ==
    [][ (op' \in {"paste_after", "paste_before"} /\ reg_line_mode /\ reg_content # <<>>)
        => LET r == cursor_y
               at == IF op' = "paste_after" THEN r + 1 ELSE r
           IN  /\ lines' = SubSeq(lines, 1, at) \o reg_content
                               \o SubSeq(lines, at + 1, Len(lines))
               /\ cursor_y' = at
               /\ cursor_x' = 0
      ]_vars

\* The two-row register pasted after the only row of the empty buffer.
C29_Witness ==
    /\ op = "paste_after"
    /\ reg_line_mode
    /\ reg_content = <<"a", "a ">>
    /\ hist_pos > 1
    /\ hist[hist_pos - 1].lines = <<"">>
    /\ lines = <<"", "a", "a ">>
    /\ cursor_y = 1 /\ cursor_x = 0

\* The word characters: alphanumerics and the underscore.
WordChars == Alnum \cup {"_"}

\* C30: next_word skips the rest of the run of word characters under the
\* cursor, underscores included, then the separators, and stops on the first
\* character of the next word of the line; with the line exhausted it goes to
\* column 0 of the next row, and stays where it is on the last row. prev_word
\* at column 0 of a row r > 0 goes to the end of row r - 1. The cursor is in
\* bounds after either motion.
C30_WordMotions ==
    [][ /\ op' = "next_word" =>
            LET line == lines[cursor_y + 1]
                x == SkipForward(line, SkipForward(line, cursor_x, WordChars, TRUE),
                                 WordChars, FALSE)
            IN  IF x < Len(line)
                THEN cursor_y' = cursor_y /\ cursor_x' = x
                ELSE IF cursor_y < Len(lines) - 1
                THEN cursor_y' = cursor_y + 1 /\ cursor_x' = 0
                ELSE UNCHANGED <<cursor_x, cursor_y>>
        /\ (op' = "prev_word" /\ cursor_x = 0 /\ cursor_y > 0) =>
            cursor_y' = cursor_y - 1 /\ cursor_x' = Len(lines[cursor_y])
        /\ op' \in {"next_word", "prev_word"} => InBounds(lines', cursor_x', cursor_y')
      ]_vars

\* The selection's two endpoints are positions of the buffer.
SelectionInBounds(ls, sel) ==
    sel.active =>
        /\ InBounds(ls, sel.start_x, sel.start_y)
        /\ InBounds(ls, sel.end_x, sel.end_y)

\* C31: delete_selection, indent_selection (indenting or unindenting) and
\* replace, applied to a buffer whose cursor and selection endpoints are in
\* bounds, leave lines non-empty, 0 <= cursor_y < len(lines) and
\* 0 <= cursor_x <= len(lines[cursor_y]).
C31_OutsideEditsKeepCursor ==
    [][ ( /\ op' \in {"delete_selection", "indent_selection", "replace"}
          /\ InBounds(lines, cursor_x, cursor_y)
          /\ SelectionInBounds(lines, selection) )
        => InBounds(lines', cursor_x', cursor_y') ]_vars

\* C32: the undo stack never holds more than max_undo_levels snapshots, nor
\* do the undo and redo stacks together; a save_state on a full stack evicts
\* the oldest snapshot only, keeping the later ones in order under the new
\* one, and an undo restores the state the buffer had just before the last
\* edit.
C32_UndoBounded ==
    /\ [](/\ Len(undo_stack) <= max_undo_levels
          /\ Len(undo_stack) + Len(redo_stack) <= max_undo_levels)
    /\ [][ /\ (op' \in Mutators /\ Len(undo_stack) = max_undo_levels) =>
               undo_stack' = Append(Tail(undo_stack), Live)
           /\ (op' = "undo" /\ undo_stack # <<>>) =>
               (ret' = "True" /\ hist_pos > 1 /\ Live' = hist[hist_pos - 1])
         ]_vars

\* Every edit the run may make is made, the last one evicting the oldest
\* snapshot, and then undone.
C32_Witness ==
    /\ op = "undo"
    /\ ret = "True"
    /\ edits_left = 0
    /\ Len(hist) = max_undo_levels + 1
    /\ Len(undo_stack) = max_undo_levels - 1
    /\ Len(redo_stack) = 1
    /\ Live = hist[max_undo_levels]

\* C34: after only_window, with any number of windows open and any of them
\* active, exactly one window remains and it is the window that was active
\* when the command was issued.
C34_OnlyKeepsCurrent ==
    [][ (op' = "only_window" /\ HasActive(windows, active_window_index)) =>
            /\ Len(windows') = 1
            /\ active_window_index' = 0
            /\ windows'[1].id = windows[active_window_index + 1].id ]_vars

\* ls without the text from (y, x) up to (ey, ex), the rows in between joined.
Removed(ls, y, x, ey, ex) ==
    SubSeq(ls, 1, y) \o <<SliceTo(ls[y + 1], x) \o SliceFrom(ls[ey + 1], ex)>>
        \o SubSeq(ls, ey + 2, Len(ls))

RECURSIVE TotalChars(_)
TotalChars(ls) == IF ls = <<>> THEN 0 ELSE Len(ls[1]) + TotalChars(Tail(ls))

\* C35: dw with the cursor in bounds removes a contiguous piece of text that
\* starts at the cursor, on the cursor's row or running onto later rows,
\* changes no other row, never makes the buffer longer, and leaves the cursor
\* where it was.
C35_DeleteWordOnlyDeletes ==
    [][ (op' = "handle_d_command" /\ InBounds(lines, cursor_x, cursor_y)) =>
            /\ \E ey \in cursor_y..Len(lines) - 1 : \E ex \in 0..Len(lines[ey + 1]) :
                  /\ (ey = cursor_y => ex >= cursor_x)
                  /\ lines' = Removed(lines, cursor_y, cursor_x, ey, ex)
            /\ TotalChars(lines') <= TotalChars(lines)
            /\ cursor_x' = cursor_x
            /\ cursor_y' = cursor_y ]_vars

\* goto_line or a goto_mark that found its mark has just run.
Jumped == op = "goto_line" \/ (op = "goto_mark" /\ ret = "True")

\* C36: after goto_line or goto_mark has moved the cursor away from P, an
\* immediately following jump_backward returns True and puts the cursor at P,
\* and a jump_forward right after that jump_backward puts the cursor back
\* where it was before the jump_backward.
C36_JumpBackReturns ==
    [][ /\ ( /\ Jumped
             /\ jumped_from # <<cursor_y, cursor_x>>
             /\ op' = "jump_backward" ) =>
                 (ret' = "True" /\ <<cursor_y', cursor_x'>> = jumped_from)
        /\ ( /\ op = "jump_backward" /\ ret = "True"
             /\ op' = "jump_forward" ) =>
                 (ret' = "True" /\ <<cursor_y', cursor_x'>> = jumped_from)
      ]_vars

\* C37: the current index of the BufferManager is always that of a buffer;
\* close_buffer on the only buffer returns False and leaves it, and
\* close_buffer on a buffer other than the current one leaves the same Buffer
\* object current.
C37_CurrentBufferValid ==
    /\ [](0 <= current_index /\ current_index < Len(buffers))
    /\ [][ op' = "close_buffer" =>
             /\ (Len(buffers) = 1 /\ args'[1] = 0) =>
                   (ret' = "False" /\ buffers' = buffers)
             /\ (ret' = "True" /\ args'[1] # current_index) =>
                   get_current_buffer(buffers', current_index') =
                       get_current_buffer(buffers, current_index)
         ]_vars

\* Editor.buffer
EditorBuffer == get_current_buffer(buffers, current_index)

BufferCommands ==
    {"edit_file", "CommandHandler.next_buffer", "CommandHandler.previous_buffer",
     "delete_buffer"}

\* C38: after :e, :bn, :bp or :bd the buffer of the SearchEngine, the buffer
\* of the VisualModeHandler and the buffer of the active window are the
\* object Editor.buffer is.
C38_ComponentsFollowCurrent ==
    op \in BufferCommands =>
        /\ search_buffer = EditorBuffer
        /\ visual_buffer = EditorBuffer
        /\ HasActive(windows, active_window_index)
        /\ windows[active_window_index + 1].buffer = EditorBuffer

\* C39: paste_before right after the visual d of a character-mode selection
\* whose endpoints are in bounds, on one row or over several, restores the
\* lines as they were before the deletion.
C39_DeletePasteRoundTrip ==
    [][ ( /\ op = "handle_visual_input"
          /\ branch = "CHARACTER"
          /\ hist_pos > 1
          /\ op' = "paste_before" ) =>
        lines' = hist[hist_pos - 1].lines ]_vars

\* The number of newlines in t.
Newlines(t) == Len(Split(t, "\n")) - 1

\* The state before the last edit, and the range from its cursor to the
\* live cursor.
BeforeEdit == hist[hist_pos - 1]
InsertedRange == <<BeforeEdit.cursor_y, BeforeEdit.cursor_x, cursor_y, cursor_x>>

\* C40: insert_text_at_cursor(t) at an in-bounds cursor (y, x) leaves the
\* cursor at the end (y2, x2) of the inserted text, with get_text_range(y, x,
\* y2, x2) equal to t and as many more lines as t has newlines; delete_range(y,
\* x, y2, x2) right after it restores the lines and puts the cursor at (y, x).
C40_InsertDeleteInverse ==
    [][ /\ (op' = "insert_text_at_cursor" /\ InBounds(lines, cursor_x, cursor_y)) =>
            LET t == args'[1]
                rows == Split(t, "\n")
            IN  /\ cursor_y' = cursor_y + Newlines(t)
                /\ cursor_x' = IF Newlines(t) = 0 THEN cursor_x + Len(t)
                               ELSE Len(rows[Len(rows)])
                /\ get_text_range(lines', cursor_y, cursor_x, cursor_y', cursor_x') = t
                /\ Len(lines') = Len(lines) + Newlines(t)
        /\ ( /\ op = "insert_text_at_cursor"
             /\ hist_pos > 1
             /\ op' = "delete_range"
             /\ args' = InsertedRange ) =>
            /\ lines' = BeforeEdit.lines
            /\ cursor_y' = BeforeEdit.cursor_y
            /\ cursor_x' = BeforeEdit.cursor_x
      ]_vars

\* A text of three rows has been inserted inside a row and the range it
\* occupies deleted again.
C40_Witness ==
    /\ op = "delete_range"
    /\ hist_pos = 3
    /\ Len(hist[2].lines) = Len(hist[1].lines) + 2
    /\ hist[1].cursor_x = 1
    /\ args = <<hist[1].cursor_y, hist[1].cursor_x, hist[2].cursor_y, hist[2].cursor_x>>
    /\ Live = hist[1]

\* C33: every state on the undo stack and on the redo stack has the lines and
\* the cursor the buffer had when the state was captured, whatever edits,
\* undos and redos have happened since.
C33_SnapshotsKeepCapture ==
    /\ Len(undo_objs) = Len(undo_stack)
    /\ Len(redo_objs) = Len(redo_stack)
    /\ \A i \in 1..Len(undo_stack) : undo_stack[i] = undo_objs[i].captured
    /\ \A i \in 1..Len(redo_stack) : redo_stack[i] = redo_objs[i].captured

\* A restore has given the buffer another list, the buffer has been edited in
\* place since, and the state captured before that edit is on the undo stack
\* with the lines it was captured with.
C33_Witness ==
    /\ op = "insert_char"
    /\ lines_obj # 0
    /\ undo_stack # <<>>
    /\ undo_stack[Len(undo_stack)].lines # lines
    /\ undo_stack[Len(undo_stack)] = undo_objs[Len(undo_objs)].captured

====
